---- MODULE Spec2Model ----
(***************************************************************************)
(* Line Utilization Optimizer: the priority-tiered demand allocation of    *)
(* Optimizer/optimizer.py and the changeover method registry of            *)
(* Optimizer/changeover/registry.py.                                       *)
(*                                                                         *)
(* Numbers in the program are Python floats.  A float is modelled as a     *)
(* pair <<m, e>> standing for m * 2^e, with a mantissa of MantissaBits     *)
(* bits (2^(MantissaBits-1) <= |m| < 2^MantissaBits, or <<0, 0>> for 0);   *)
(* every arithmetic operation rounds its exact result to the nearest such  *)
(* value, ties to even, as IEEE-754 does with 53 bits.                     *)
(***************************************************************************)
EXTENDS Integers, Sequences, FiniteSets, TLC

MantissaBits == 8

\* ------------------------------------------------------------------------
\* Floating-point arithmetic (Python float)
\* ------------------------------------------------------------------------

Pow2Table ==
    <<1, 2, 4, 8, 16, 32, 64, 128, 256, 512, 1024, 2048, 4096, 8192, 16384,
      32768, 65536, 131072, 262144, 524288, 1048576, 2097152, 4194304,
      8388608, 16777216, 33554432, 67108864, 134217728, 268435456,
      536870912, 1073741824>>

Pow2(k) == Pow2Table[k + 1]

RECURSIVE BitLen(_)
BitLen(n) == IF n <= 0 THEN 0 ELSE IF n < 16 THEN 1 + BitLen(n \div 2)
             ELSE 4 + BitLen(n \div 16)

Abs(n) == IF n < 0 THEN 0 - n ELSE n

Max(a, b) == IF a >= b THEN a ELSE b

Zero == <<0, 0>>

\* q * 2^E with q already cut to MantissaBits bits, rounded up to the next
\* value when up holds.
RoundUp(sgn, q, up, E) ==
    IF up
    THEN IF q + 1 = Pow2(MantissaBits)
         THEN <<sgn * Pow2(MantissaBits - 1), E + 1>>
         ELSE <<sgn * (q + 1), E>>
    ELSE <<sgn * q, E>>

RoundShift(sgn, q, r, half, E) ==
    RoundUp(sgn, q, (r > half) \/ (r = half /\ q % 2 = 1), E)

RoundBits(sgn, N, E, s) ==
    RoundShift(sgn, N \div Pow2(s), N % Pow2(s), Pow2(s - 1), E + s)

\* Round sgn * N * 2^E, N having more than MantissaBits bits, to nearest-even.
RoundNorm(sgn, N, E) == RoundBits(sgn, N, E, BitLen(N) - MantissaBits)

RoundQuot(sgn, A, d, E) ==
    RoundNorm(sgn, 2 * (A \div d) + (IF A % d = 0 THEN 0 ELSE 1), E)

RoundScaled(sgn, a, d, E, k) == RoundQuot(sgn, a * Pow2(k), d, E - k - 1)

\* The float nearest to (n / d) * 2^E, for integers n and d > 0.
RoundRat(n, d, E) ==
    IF n = 0 THEN Zero
    ELSE IF n < 0
    THEN RoundScaled(-1, 0 - n, d, E, Max(0, MantissaBits + 2 + BitLen(d) - BitLen(0 - n)))
    ELSE RoundScaled(1, n, d, E, Max(0, MantissaBits + 2 + BitLen(d) - BitLen(n)))

FromInt(n) == RoundRat(n, 1, 0)

FMul(x, y) == RoundRat(x[1] * y[1], 1, x[2] + y[2])

\* x / y for y # 0 (Python raises ZeroDivisionError for y = 0; callers test).
FDiv(x, y) ==
    IF y[1] < 0 THEN RoundRat(0 - x[1], 0 - y[1], x[2] - y[2])
    ELSE RoundRat(x[1], y[1], x[2] - y[2])

FAddAligned(hi, lo, d) ==
    IF d <= MantissaBits + 2
    THEN RoundRat(hi[1] * Pow2(d) + lo[1], 1, lo[2])
    ELSE RoundRat(hi[1] * Pow2(MantissaBits + 2) + (IF lo[1] < 0 THEN -1 ELSE 1),
                  1, hi[2] - (MantissaBits + 2))

FAdd(x, y) ==
    IF x[1] = 0 THEN y
    ELSE IF y[1] = 0 THEN x
    ELSE IF x[2] >= y[2] THEN FAddAligned(x, y, x[2] - y[2])
    ELSE FAddAligned(y, x, y[2] - x[2])

FNeg(x) == <<0 - x[1], x[2]>>

FSub(x, y) == FAdd(x, FNeg(y))

Sign(x) == IF x[1] > 0 THEN 1 ELSE IF x[1] < 0 THEN -1 ELSE 0

\* x < y
FLt(x, y) ==
    IF Sign(x) # Sign(y) THEN Sign(x) < Sign(y)
    ELSE IF Sign(x) = 0 THEN FALSE
    ELSE IF Sign(x) > 0
         THEN x[2] < y[2] \/ (x[2] = y[2] /\ x[1] < y[1])
         ELSE x[2] > y[2] \/ (x[2] = y[2] /\ x[1] < y[1])

FLe(x, y) == x = y \/ FLt(x, y)

\* sum(...) of floats, left to right from 0.
RECURSIVE FSum(_)
FSum(s) == IF s = <<>> THEN Zero ELSE FAdd(FSum(SubSeq(s, 1, Len(s) - 1)), s[Len(s)])

\* min() dropped: the first argument whatever the second.
FMinDropped(x, y) == x

FMin(x, y) == IF FLt(y, x) THEN y ELSE x

Round2Half(sgn, q, r, den) ==
    RoundRat(sgn * (IF (2 * r > den) \/ (2 * r = den /\ q % 2 = 1) THEN q + 1 ELSE q),
             100, 0)

Round2Scaled(sgn, a, den) == Round2Half(sgn, a \div den, a % den, den)

\* round(x, 2): the float nearest to x rounded half-even to two decimals.
Round2(x) ==
    IF x[2] >= 0 THEN x
    ELSE IF 0 - x[2] > MantissaBits + 8 THEN Zero
    ELSE Round2Scaled(Sign(x), Abs(x[1]) * 100, Pow2(0 - x[2]))

\* round(x, n) for 10^n = scale: the float nearest to x rounded half-even to n
\* decimals; den = 2^(-e) is the denominator of x.
RoundDecimalsHalf(sgn, q, r, den, scale) ==
    RoundRat(sgn * (IF (r > den - r) \/ (r = den - r /\ q % 2 = 1) THEN q + 1 ELSE q),
             scale, 0)

RoundDecimalsScaled(sgn, a, den, scale) ==
    RoundDecimalsHalf(sgn, a \div den, a % den, den, scale)

RoundDecimals(x, scale, bits) ==
    IF x[2] >= 0 THEN x
    ELSE IF 0 - x[2] > MantissaBits + bits THEN Zero
    ELSE RoundDecimalsScaled(Sign(x), Abs(x[1]) * scale, Pow2(0 - x[2]), scale)

\* round(x, 4): below 2^-15 every value rounds to 0.
Round4(x) == RoundDecimals(x, 10000, 14)

\* round(x, 6): below 2^-21 every value rounds to 0.
Round6(x) == RoundDecimals(x, 1000000, 20)

Hundred == FromInt(100)

\* ------------------------------------------------------------------------
\* Input documents (lines, volumes, compatibilities)
\* ------------------------------------------------------------------------

MaxCompats == 2

\* The line names of the inputs, in the order of Python's string comparison.
NameOrder == <<"FINAL-2", "SMT-1", "SMT-2">>

LineName(id) ==
    CASE id = "line-smt-1" -> "SMT-1"
      [] id = "line-smt-2" -> "SMT-2"
      [] id = "line-2" -> "FINAL-2"

\* A line record with its lineType, and one without (line_data.get('lineType',
\* 'shared') makes it a shared line).
TypedLine(id, area, cap, lineType) ==
    [id |-> id, name |-> LineName(id), area |-> area, lineType |-> lineType,
     timeAvailableDaily |-> cap]

Line(id, area, cap) == TypedLine(id, area, cap, "shared")

Vol(m, volume, days) == [modelId |-> m, volume |-> volume, operationsDays |-> days]

Compat(l, m, ct, eff, p) ==
    [lineId |-> l, modelId |-> m, cycleTime |-> ct, efficiency |-> eff, priority |-> p]

\* create_test_data of test_priority_distribution.py; the priorities of
\* Model B and Model C on the two lines are left open.
ScenarioInputs ==
    { [lines_data |-> <<Line("line-smt-1", "SMT", 28800),
                        Line("line-smt-2", "SMT", c2)>>,
       volumes |-> <<Vol("model-a", 10000, 250), Vol("model-b", 15000, 250),
                     Vol("model-c", 12000, 250)>>,
       compatibilities |->
           <<Compat("line-smt-1", "model-a", 300, 85, 1),
             Compat("line-smt-2", "model-a", 300, 85, 1),
             Compat("line-smt-1", "model-b", 300, 85, pb[1]),
             Compat("line-smt-2", "model-b", 300, 85, pb[2]),
             Compat("line-smt-1", "model-c", 300, 85, pc1[1]),
             Compat("line-smt-2", "model-c", 300, 85, pc1[2])>>] :
       c2 \in {28800, 0}, pb \in {1, 2} \X {1, 2}, pc1 \in {1, 2} \X {1, 2} }

\* Two lines in one or two areas; model-a with volume; model-b with a small
\* volume, with no operating days or with no volume record; and every
\* compatibility list of at most MaxCompats records over the two lines and
\* the two models.  A profile fixes the capacity of the first line, the
\* yearly volume of model-a and the cycle time and efficiency of the records.
GenericRecords(ce) ==
    { Compat(l, m, ce[1], ce[2], p) :
        l \in {"line-smt-1", "line-2"}, m \in {"model-a", "model-b"}, p \in {1, 2} }

CompatLists(ce) ==
    UNION { [1..n -> GenericRecords(ce)] : n \in 1..MaxCompats }

Profiles ==
    { <<1200, 10000, <<30, 100>>>>, <<1200, 48000, <<30, 100>>>>,
      <<1000, 48000, <<30, 53>>>>, <<0, 48000, <<30, 100>>>>,
      <<-100, 10000, <<30, 100>>>>, <<0, 10000, <<30, 0>>>>,
      <<1200, 10000, <<30, 0>>>>, <<900, 48000, <<7, 53>>>> }

\* The line types of the two lines of a generic input: both shared, and for
\* the profile that fills both lines also a dedicated line next to a shared
\* one and two dedicated lines.
LineTypes(profile) ==
    IF profile[1] = 1200 /\ profile[2] = 48000
    THEN { <<"shared", "shared">>, <<"dedicated", "shared">>,
           <<"dedicated", "dedicated">> }
    ELSE { <<"shared", "shared">> }

GenericInput(profile, a2, vb, cl, types) ==
    [lines_data |-> <<TypedLine("line-smt-1", "SMT", profile[1], types[1]),
                      TypedLine("line-2", a2, 1200, types[2])>>,
     volumes |-> <<Vol("model-a", profile[2], 250)>> \o vb,
     compatibilities |-> cl]

IsInput(d) ==
    \/ d \in ScenarioInputs
    \/ \E profile \in Profiles, a2 \in {"SMT", "ICT"},
          vb \in {<<>>, <<Vol("model-b", 130, 128)>>, <<Vol("model-b", 500, 0)>>} :
          \E cl \in CompatLists(profile[3]), types \in LineTypes(profile) :
             d = GenericInput(profile, a2, vb, cl, types)

\* ------------------------------------------------------------------------
\* ProductionLine
\* ------------------------------------------------------------------------

\* ProductionLine(...) as constructed at the start of a year run.
ProductionLine(ld) ==
    [id |-> ld.id, name |-> ld.name, area |-> ld.area, lineType |-> ld.lineType,
     timeAvailableDaily |-> FromInt(ld.timeAvailableDaily),
     timeUsedDaily |-> Zero, assignments |-> <<>>]

utilizationPercent(line) ==
    IF line.timeAvailableDaily = Zero THEN Zero
    ELSE FMul(FDiv(line.timeUsedDaily, line.timeAvailableDaily), Hundred)

\* cycle_time / (efficiency / 100.0); efficiency = 0 divides by zero.
adjusted_cycle_time(cycle_time, efficiency) ==
    FDiv(FromInt(cycle_time), FDiv(FromInt(efficiency), Hundred))

NoAllocation(line) == [line |-> line, allocated |-> Zero, raised |-> FALSE]

ZeroDivisionError(line) == [line |-> line, allocated |-> Zero, raised |-> TRUE]

\* Lines 112-133: the time is booked and the assignment recorded.
add_model_record(line, model_id, daily_demand, cycle_time, efficiency, priority, allocated_units, time_used) ==
    [line |-> [line EXCEPT
                 !.timeUsedDaily = FAdd(@, time_used),
                 !.assignments = Append(@,
                     [modelId |-> model_id,
                      allocatedUnitsDaily |-> Round2(allocated_units),
                      demandUnitsDaily |-> Round2(daily_demand),
                      timeRequiredSeconds |-> Round2(time_used),
                      cycleTime |-> cycle_time,
                      efficiency |-> efficiency,
                      priority |-> priority,
                      fulfillmentPercent |->
                          Round2(IF FLt(Zero, daily_demand)
                                 THEN FMul(FDiv(allocated_units, daily_demand), Hundred)
                                 ELSE Hundred)])],
     allocated |-> allocated_units,
     raised |-> FALSE]

\* Lines 107-113: allocated_units = min(max_units, daily_demand).
add_model_units(line, model_id, daily_demand, cycle_time, efficiency, priority, adjusted, allocated_units) ==
    IF FLe(allocated_units, Zero) THEN NoAllocation(line)
    ELSE add_model_record(line, model_id, daily_demand, cycle_time, efficiency,
                          priority, allocated_units, FMul(allocated_units, adjusted))

\* Lines 100-106: available_time and max_units = available_time / adjusted.
add_model_available(line, model_id, daily_demand, cycle_time, efficiency, priority, adjusted, available_time) ==
    IF FLe(available_time, Zero) THEN NoAllocation(line)
    ELSE IF adjusted = Zero THEN ZeroDivisionError(line)
    ELSE add_model_units(line, model_id, daily_demand, cycle_time, efficiency,
                         priority, adjusted,
                         FMin(FDiv(available_time, adjusted), daily_demand))

\* ProductionLine.add_model: the line after the call, the units returned and
\* whether the call raised ZeroDivisionError.
add_model(line, model_id, daily_demand, cycle_time, efficiency, priority) ==
    IF efficiency = 0 THEN ZeroDivisionError(line)
    ELSE add_model_available(line, model_id, daily_demand, cycle_time, efficiency,
                             priority, adjusted_cycle_time(cycle_time, efficiency),
                             FSub(line.timeAvailableDaily, line.timeUsedDaily))

\* ------------------------------------------------------------------------
\* Indexing of the input
\* ------------------------------------------------------------------------

RECURSIVE SeqToSet(_)
SeqToSet(s) == IF s = <<>> THEN {} ELSE {Head(s)} \cup SeqToSet(Tail(s))

RECURSIVE Concat(_)
Concat(ss) == IF ss = <<>> THEN <<>> ELSE Head(ss) \o Concat(Tail(ss))

\* The elements of a set of integers in ascending order (sorted(set(...))).
RECURSIVE Sorted(_)
Sorted(S) ==
    IF S = {} THEN <<>>
    ELSE LET lo == CHOOSE x \in S : \A y \in S : x <= y
         IN  <<lo>> \o Sorted(S \ {lo})

\* The distinct values of key over s, in order of first appearance
\* (insertion order of a dict).
RECURSIVE FirstSeen(_, _)
FirstSeen(s, seen) ==
    IF s = <<>> THEN <<>>
    ELSE IF Head(s) \in seen THEN FirstSeen(Tail(s), seen)
    ELSE <<Head(s)>> \o FirstSeen(Tail(s), seen \cup {Head(s)})

\* get_volumes_by_year: modelId -> volume record with dailyDemand; a later
\* record of the same model replaces an earlier one.
get_volumes_by_year(volumes) ==
    LET ids == { volumes[i].modelId : i \in DOMAIN volumes }
        last(m) == CHOOSE i \in DOMAIN volumes :
                      /\ volumes[i].modelId = m
                      /\ \A j \in DOMAIN volumes : volumes[j].modelId = m => j <= i
    IN  [m \in ids |->
            LET vol == volumes[last(m)]
            IN  [volume |-> vol.volume,
                 operationsDays |-> vol.operationsDays,
                 dailyDemand |-> IF vol.operationsDays > 0
                                 THEN RoundRat(vol.volume, vol.operationsDays, 0)
                                 ELSE Zero]]

\* list.sort(key=priority): stable, ascending.
SortByPriority(cs) ==
    LET prios == Sorted({ cs[i].priority : i \in DOMAIN cs })
    IN  Concat([k \in DOMAIN prios |->
                  SelectSeq(cs, LAMBDA c : c.priority = prios[k])])

\* get_compatibilities_by_line: lineId -> its records, sorted by priority.
get_compatibilities_by_line(compatibilities) ==
    [l \in { compatibilities[i].lineId : i \in DOMAIN compatibilities } |->
        SortByPriority(SelectSeq(compatibilities, LAMBDA c : c.lineId = l))]

\* compats_by_line.get(line_id, [])
CompatsOf(compats_by_line, line_id) ==
    IF line_id \in DOMAIN compats_by_line THEN compats_by_line[line_id] ELSE <<>>

\* lines_by_area: the areas in first-seen order, and the line ids of an area
\* in the order of lines_data.
AreaOrder(ld) == FirstSeen([i \in DOMAIN ld |-> ld[i].area], {})

LineIdsInArea(ld, area) ==
    LET sel == SelectSeq(ld, LAMBDA l : l.area = area)
    IN  [i \in DOMAIN sel |-> sel[i].id]

\* The records of every line of the input, whatever its area.
area_compatibilities_every_line(ld, compats_by_line, volumes_by_model, area) ==
    Concat([i \in DOMAIN ld |->
              SelectSeq(CompatsOf(compats_by_line, ld[i].id),
                        LAMBDA c : c.modelId \in DOMAIN volumes_by_model)])

\* Step 1 of the area pass: the area's compatibility records, line by line,
\* without the records of models that have no volume.
area_compatibilities(ld, compats_by_line, volumes_by_model, area) ==
    LET ids == LineIdsInArea(ld, area)
    IN  Concat([i \in DOMAIN ids |->
                  SelectSeq(CompatsOf(compats_by_line, ids[i]),
                            LAMBDA c : c.modelId \in DOMAIN volumes_by_model)])

models_with_compats_in_area(ac) == { ac[i].modelId : i \in DOMAIN ac }

\* The tiers in descending order.
priority_levels_descending(ac) ==
    LET up == Sorted({ ac[i].priority : i \in DOMAIN ac })
    IN  [k \in DOMAIN up |-> up[Len(up) + 1 - k]]

\* Step 2: sorted(set(priorities)).
priority_levels(ac) == Sorted({ ac[i].priority : i \in DOMAIN ac })

\* Step 3: the records of one tier, grouped by model in first-seen order.
compats_at_priority(ac, p) == SelectSeq(ac, LAMBDA c : c.priority = p)

\* The models of a tier in the reverse of their first-seen order.
models_at_priority_reversed(ac, p) ==
    LET cap   == compats_at_priority(ac, p)
        order == FirstSeen([i \in DOMAIN cap |-> cap[i].modelId], {})
    IN  [k \in DOMAIN order |->
            SelectSeq(cap, LAMBDA c : c.modelId = order[Len(order) + 1 - k])]

models_at_priority(ac, p) ==
    LET cap   == compats_at_priority(ac, p)
        order == FirstSeen([i \in DOMAIN cap |-> cap[i].modelId], {})
    IN  [k \in DOMAIN order |->
            SelectSeq(cap, LAMBDA c : c.modelId = order[k])]

\* The records visited in the order of the area's list, tiers ignored.
Schedule_in_record_order(ac) == ac

\* The records in the order in which the three nested loops (tier, model,
\* compatible line) visit them.
Schedule(ac) ==
    LET pl == priority_levels(ac)
    IN  Concat([t \in DOMAIN pl |-> Concat(models_at_priority(ac, pl[t]))])

\* ------------------------------------------------------------------------
\* Changeover strategies and their registry
\* ------------------------------------------------------------------------

ModelInfo(model_id, units) ==
    [model_id |-> model_id, allocated_units_daily |-> FromInt(units)]

ChangeoverInput(models, matrix, changeovers, available) ==
    [models |-> models, changeover_matrix |-> matrix,
     num_changeovers_per_day |-> changeovers,
     time_available_daily |-> FromInt(available)]

\* A matrix entry: a number of minutes n / d, and a whole number of minutes.
Minutes(n, d) == <<n, d>>

WholeMinutes(n) == Minutes(n, 1)

\* An available time with more than two decimals: 129/256 of a second.
FractionalSeconds == RoundRat(129, 256, 0)

\* A changeover matrix: (from, to) -> minutes, for the pairs it holds.
Matrix(ab, ba) ==
    (<<"model-a", "model-b">> :> WholeMinutes(ab))
        @@ (<<"model-b", "model-a">> :> WholeMinutes(ba))

\* A matrix of changeovers of a second or two, with a tie at its maximum.
FineMatrix ==
    (<<"model-a", "model-b">> :> Minutes(1, 32))
        @@ (<<"model-b", "model-a">> :> Minutes(1, 96))
        @@ (<<"model-c", "model-a">> :> Minutes(1, 32))

\* The inputs of the registry calls: no model, one model, two models (with
\* and without allocated units) and three models over two partial matrices of
\* whole minutes, two and three models over the fine matrix, a mix dominated
\* by one model and a mix of two nearly equal models.
ChangeoverInputs ==
    { ChangeoverInput(models, matrix, Max(1, Len(models) - 1), 28800) :
        models \in { <<>>,
                     <<ModelInfo("model-a", 30)>>,
                     <<ModelInfo("model-a", 30), ModelInfo("model-b", 10)>>,
                     <<ModelInfo("model-a", 0), ModelInfo("model-b", 0)>>,
                     <<ModelInfo("model-a", 30), ModelInfo("model-b", 10),
                       ModelInfo("model-c", 10)>> },
        matrix \in { Matrix(5, 15),
                     Matrix(30, 30) @@ (<<"model-a", "model-c">> :> WholeMinutes(45)) } }
    \cup
    { ChangeoverInput(models, FineMatrix, Max(1, Len(models) - 1), 28800) :
        models \in { <<ModelInfo("model-a", 30), ModelInfo("model-b", 10)>>,
                     <<ModelInfo("model-a", 30), ModelInfo("model-b", 10),
                       ModelInfo("model-c", 10)>> } }
    \cup
    { ChangeoverInput(models, Matrix(5, 15), 1, 28800) :
        models \in { <<ModelInfo("model-a", 240), ModelInfo("model-b", 1)>>,
                     <<ModelInfo("model-a", 14), ModelInfo("model-b", 15)>> } }
    \cup
    { [ChangeoverInput(models, Matrix(5, 15), 1, 1)
          EXCEPT !.time_available_daily = FractionalSeconds] :
        models \in { <<ModelInfo("model-a", 30)>>,
                     <<ModelInfo("model-a", 30), ModelInfo("model-b", 10)>> } }

\* The config argument: absent, empty, with a threshold, and with a null
\* threshold (the comparison of len(models) with None raises TypeError).
Configs ==
    { [none |-> TRUE], [keys |-> {}],
      [keys |-> {"minModelsForProbability"}, minModelsForProbability |-> [int |-> 3]],
      [keys |-> {"minModelsForProbability"},
       minModelsForProbability |-> [none |-> TRUE]] }

Sixty == FromInt(60)

One == FromInt(1)

\* changeover_matrix.get(key, 0)
matrix_get(matrix, key) ==
    IF key \in DOMAIN matrix THEN RoundRat(matrix[key][1], matrix[key][2], 0)
    ELSE Zero

\* The (from, to) pairs of different models in the order of the nested loops.
transition_keys(models) ==
    Concat([i \in DOMAIN models |->
        LET others == SelectSeq(models, LAMBDA m : m.model_id # models[i].model_id)
        IN  [j \in DOMAIN others |-> <<models[i].model_id, others[j].model_id>>]])

\* The minutes of the transitions, in the order of the nested loops.
transition_minutes(input_data) ==
    LET keys == transition_keys(input_data.models)
    IN  [k \in DOMAIN keys |-> matrix_get(input_data.changeover_matrix, keys[k])]

\* max(...) of floats over a sequence, from 0.0.
RECURSIVE FMaxFrom0(_)
FMaxFrom0(s) ==
    IF s = <<>> THEN Zero
    ELSE LET rest == FMaxFrom0(SubSeq(s, 1, Len(s) - 1))
         IN  IF FLt(rest, s[Len(s)]) THEN s[Len(s)] ELSE rest

_get_worst_case_changeover(models, matrix) ==
    LET keys == transition_keys(models)
    IN  FMaxFrom0([k \in DOMAIN keys |-> matrix_get(matrix, keys[k])])

\* ChangeoverMethod._calculate_hhi
_calculate_hhi(models) ==
    LET total_demand == FSum([i \in DOMAIN models |-> models[i].allocated_units_daily])
        squares == [i \in DOMAIN models |->
                      LET proportion == FDiv(models[i].allocated_units_daily,
                                             total_demand)
                      IN  FMul(proportion, proportion)]
    IN  IF FLe(total_demand, Zero) THEN Zero ELSE FSum(squares)

Returned(result, invoked) ==
    [raised |-> FALSE, result |-> result, invoked |-> invoked]

Raised(type, message, invoked) ==
    [raised |-> TRUE, error |-> [type |-> type, message |-> message],
     invoked |-> invoked]

TransitionAnalysis(key, minutes, probability, contribution) ==
    [from_model_id |-> key[1], to_model_id |-> key[2],
     changeover_minutes |-> minutes, probability |-> probability,
     weighted_contribution |-> contribution, percent_of_total |-> Zero]

\* list.sort(key=-k) of the items paired with their keys: stable, the greatest
\* key first.
RECURSIVE SortByKeyDescending(_)
SortByKeyDescending(pairs) ==
    IF pairs = <<>> THEN <<>>
    ELSE LET top == CHOOSE i \in DOMAIN pairs :
                       /\ \A j \in DOMAIN pairs : ~FLt(pairs[i].key, pairs[j].key)
                       /\ \A j \in 1..(i - 1) : FLt(pairs[j].key, pairs[i].key)
         IN  <<pairs[top].item>>
                 \o SortByKeyDescending(SubSeq(pairs, 1, top - 1)
                                        \o SubSeq(pairs, top + 1, Len(pairs)))

\* The percent_of_total of each transition, share[k] / total * 100 when the
\* total is positive, and the sort of the list by the keys.
finish_transitions(transitions, shares, total, keys) ==
    SortByKeyDescending(
        [k \in DOMAIN transitions |->
            [key |-> keys[k],
             item |-> IF FLt(Zero, total)
                      THEN [transitions[k] EXCEPT
                              !.percent_of_total =
                                  Round2(FMul(FDiv(shares[k], total), Hundred))]
                      ELSE transitions[k]]])

\* Lines 225-229: used / time_available_daily * 100, or 0.
build_utilization(used, available) ==
    IF FLt(Zero, available) THEN FMul(FDiv(used, available), Hundred) ELSE Zero

\* The impact as the difference of the two utilizations, whatever its sign.
build_impact_signed(util_production, util_with_changeover) ==
    FSub(util_production, util_with_changeover)

\* Line 231.
build_impact(util_production, util_with_changeover) ==
    IF FLt(util_with_changeover, util_production)
    THEN FSub(util_production, util_with_changeover) ELSE Zero

\* Lines 242-264: the ChangeoverResult.
build_record(id, input_data, time_used_changeover, expected_changeover_time, time_used_production, total_time_used, util_production, util_with_changeover) ==
    [method_used |-> id,
     time_used_production |-> Round2(time_used_production),
     time_used_changeover |-> Round2(time_used_changeover),
     total_time_used |-> Round2(total_time_used),
     time_available |-> input_data.time_available_daily,
     utilization_production_only |-> Round2(util_production),
     utilization_with_changeover |-> Round2(util_with_changeover),
     changeover_impact_percent |->
         Round2(build_impact(util_production, util_with_changeover)),
     estimated_changeover_count |-> input_data.num_changeovers_per_day,
     expected_changeover_time |-> Round2(expected_changeover_time),
     worst_case_changeover_time |->
         Round2(FMul(_get_worst_case_changeover(input_data.models,
                                                input_data.changeover_matrix),
                     Sixty))]

\* Lines 222-229: the total and the two utilizations.
build_totals(id, input_data, time_used_changeover, expected_changeover_time, time_used_production, total_time_used) ==
    build_record(id, input_data, time_used_changeover, expected_changeover_time,
                 time_used_production, total_time_used,
                 build_utilization(time_used_production,
                                   input_data.time_available_daily),
                 build_utilization(total_time_used,
                                   input_data.time_available_daily))

\* Lines 217-220: the production time, not below 0.
build_production(id, input_data, time_used_changeover, expected_changeover_time, difference) ==
    build_totals(id, input_data, time_used_changeover, expected_changeover_time,
                 IF FLt(difference, Zero) THEN Zero ELSE difference,
                 FAdd(IF FLt(difference, Zero) THEN Zero ELSE difference,
                      time_used_changeover))

\* Lines 218-220, 234 and 261-263: the warnings, the HHI and the first ten
\* transitions of the result.
build_analysis(input_data, time_used_changeover, transitions, warnings) ==
    [top_costly_transitions |->
         SubSeq(transitions, 1, IF Len(transitions) < 10 THEN Len(transitions) ELSE 10),
     hhi |-> Round4(_calculate_hhi(input_data.models)),
     warnings |->
         IF FLt(FSub(input_data.time_available_daily, time_used_changeover), Zero)
         THEN Append(warnings, "Changeover time exceeds available time")
         ELSE warnings]

\* ChangeoverMethod._build_result, for the method with the given id.
_build_result(id, input_data, time_used_changeover, expected_changeover_time, transitions, warnings) ==
    build_production(id, input_data, time_used_changeover, expected_changeover_time,
                     FSub(input_data.time_available_daily, time_used_changeover))
        @@ build_analysis(input_data, time_used_changeover, transitions, warnings)

\* The result of a strategy from its expected minutes per changeover.
result_from_minutes(id, input_data, minutes, transitions, warnings) ==
    _build_result(id, input_data,
                  FMul(FMul(minutes, Sixty),
                       FromInt(input_data.num_changeovers_per_day)),
                  FMul(minutes, Sixty), transitions, warnings)

no_changeover(id, input_data, warning) ==
    _build_result(id, input_data, Zero, Zero, <<>>, <<warning>>)

\* config.get('minModelsForProbability', 2), with config = config or {}
min_models_for_probability(config) ==
    IF "keys" \in DOMAIN config /\ "minModelsForProbability" \in config.keys
    THEN config.minModelsForProbability ELSE [int |-> 2]

\* Lines 89-91: the proportions dict as the sequence of its values, one per
\* model id in first-seen order, the value being that of the id's last model.
proportions(models, total_demand) ==
    LET ids == FirstSeen([i \in DOMAIN models |-> models[i].model_id], {})
        last(id) == CHOOSE k \in DOMAIN models :
                       /\ models[k].model_id = id
                       /\ \A j \in DOMAIN models : models[j].model_id = id => j <= k
    IN  [n \in DOMAIN ids |->
            [model_id |-> ids[n],
             value |-> FDiv(models[last(ids[n])].allocated_units_daily, total_demand)]]

proportion_of(p, model_id) ==
    p[CHOOSE n \in DOMAIN p : p[n].model_id = model_id].value

\* Lines 108-110: p_from * p_to of each transition.
transition_probabilities(p, keys) ==
    [k \in DOMAIN keys |->
        FMul(proportion_of(p, keys[k][1]), proportion_of(p, keys[k][2]))]

\* Lines 111 and 115-124: the contribution and the record of each transition.
weighted_transitions(keys, minutes, probabilities) ==
    [k \in DOMAIN keys |->
        TransitionAnalysis(keys[k], minutes[k], Round6(probabilities[k]),
                           Round4(FMul(probabilities[k], minutes[k])))]

\* Lines 97-113: the sum of p_from * p_to * minutes over the transitions.
weighted_sum(minutes, probabilities) ==
    FSum([k \in DOMAIN minutes |-> FMul(probabilities[k], minutes[k])])

\* W without the division by 1 - HHI.
normalized_minutes_unnormalized(minutes, probabilities, normalization) ==
    IF FLe(normalization, RoundRat(1, 100, 0)) THEN Zero
    ELSE weighted_sum(minutes, probabilities)

\* Lines 127-133: W / (1 - HHI), or 0 when 1 - HHI <= 0.01.
normalized_minutes(minutes, probabilities, normalization) ==
    IF FLe(normalization, RoundRat(1, 100, 0)) THEN Zero
    ELSE FDiv(weighted_sum(minutes, probabilities), normalization)

\* Line 131: the warning of the dominated mix.
normalization_warnings(normalization) ==
    IF FLe(normalization, RoundRat(1, 100, 0))
    THEN <<"HHI >= 0.99: production dominated by single model">> ELSE <<>>

\* Lines 135-142: percent of total and sort by weighted contribution.
weighted_transitions_sorted(transitions) ==
    LET contributions == [k \in DOMAIN transitions |->
                            transitions[k].weighted_contribution]
    IN  finish_transitions(transitions, contributions, FSum(contributions),
                           contributions)

\* Lines 94-154, from the probabilities of the transitions and 1 - HHI.
weighted_result(id, input_data, keys, minutes, probabilities, normalization) ==
    result_from_minutes(id, input_data,
        normalized_minutes(minutes, probabilities, normalization),
        weighted_transitions_sorted(weighted_transitions(keys, minutes, probabilities)),
        normalization_warnings(normalization))

\* Line 94 and line 127: 1 - sum(p ** 2 for p in proportions.values())
weighted_normalization(p) ==
    FSub(One, FSum([n \in DOMAIN p |-> FMul(p[n].value, p[n].value)]))

weighted_minutes(id, input_data, p, keys) ==
    weighted_result(id, input_data, keys, transition_minutes(input_data),
                    transition_probabilities(p, keys), weighted_normalization(p))

probability_weighted_minutes(id, input_data, total_demand) ==
    weighted_minutes(id, input_data, proportions(input_data.models, total_demand),
                     transition_keys(input_data.models))

probability_weighted_result(id, input_data, threshold, total_demand) ==
    IF "int" \notin DOMAIN threshold
    THEN Raised("TypeError", "'<' not supported", <<id>>)
    ELSE IF Len(input_data.models) < threshold.int
    THEN Returned(no_changeover(id, input_data,
                      "Less than " \o ToString(threshold.int)
                          \o " models - no changeover needed"), <<id>>)
    ELSE IF FLe(total_demand, Zero)
    THEN Returned(no_changeover(id, input_data,
                      "No allocated demand - cannot calculate proportions"), <<id>>)
    ELSE Returned(probability_weighted_minutes(id, input_data, total_demand), <<id>>)

ProbabilityWeightedMethod_calculate(input_data, config) ==
    probability_weighted_result("probability_weighted", input_data,
        min_models_for_probability(config),
        FSum([i \in DOMAIN input_data.models |->
                input_data.models[i].allocated_units_daily]))

\* Lines 225-238: the transitions of the simple average, each with the uniform
\* probability 1 / (n * (n - 1)) of n = len(models).
uniform_transitions(keys, minutes, uniform_prob) ==
    [k \in DOMAIN keys |->
        TransitionAnalysis(keys[k], minutes[k], Round6(uniform_prob),
                           Round4(FMul(minutes[k], uniform_prob)))]

uniform_probability(n_models) ==
    IF n_models > 1 THEN RoundRat(1, n_models * (n_models - 1), 0) ELSE Zero

\* The mean taken over the number of models squared.
average_minutes_over_all_cells(minutes, n_models) ==
    IF minutes # <<>> THEN FDiv(FSum(minutes), FromInt(n_models * n_models)) ELSE Zero

\* Line 240: total_time / count if count > 0 else 0
average_minutes(minutes, n_models) ==
    IF minutes # <<>> THEN FDiv(FSum(minutes), FromInt(Len(minutes))) ELSE Zero

simple_average_result(id, input_data, keys, minutes) ==
    result_from_minutes(id, input_data,
        average_minutes(minutes, Len(input_data.models)),
        finish_transitions(
            uniform_transitions(keys, minutes,
                                uniform_probability(Len(input_data.models))),
            minutes, FSum(minutes), minutes),
        <<>>)

SimpleAverageMethod_calculate(input_data, config) ==
    IF Len(input_data.models) < 2
    THEN Returned(no_changeover("simple_average", input_data,
                      "Less than 2 models - no changeover needed"),
                  <<"simple_average">>)
    ELSE Returned(simple_average_result("simple_average", input_data,
                      transition_keys(input_data.models),
                      transition_minutes(input_data)),
                  <<"simple_average">>)

\* Lines 327-340: a transition has probability 1.0 when its minutes equal the
\* maximum found so far (itself included), else 0.0; its contribution is its
\* minutes.
worst_case_transitions(keys, minutes) ==
    [k \in DOMAIN keys |->
        TransitionAnalysis(keys[k], minutes[k],
            IF minutes[k] = FMaxFrom0(SubSeq(minutes, 1, k)) THEN One ELSE Zero,
            minutes[k])]

\* Lines 350-354: the warning names the first transition that reaches the
\* maximum (the models by their ids, the minutes left out), or says that none
\* was found.
worst_case_warning(keys, minutes) ==
    IF \E k \in DOMAIN minutes : FLt(Zero, minutes[k])
    THEN LET first == CHOOSE k \in DOMAIN minutes :
                         /\ minutes[k] = FMaxFrom0(minutes)
                         /\ \A j \in 1..(k - 1) : minutes[j] # FMaxFrom0(minutes)
         IN  "Using worst-case: " \o keys[first][1] \o " -> " \o keys[first][2]
    ELSE "No transitions found"

\* The maximum taken over the last transition alone.
max_changeover_minutes_last_only(minutes) ==
    IF minutes = <<>> THEN Zero
    ELSE IF FLt(Zero, minutes[Len(minutes)]) THEN minutes[Len(minutes)] ELSE Zero

\* Lines 315-329: the running maximum after the loops.
max_changeover_minutes(minutes) == FMaxFrom0(minutes)

worst_case_result(id, input_data, keys, minutes) ==
    result_from_minutes(id, input_data, max_changeover_minutes(minutes),
        finish_transitions(worst_case_transitions(keys, minutes), minutes,
                           max_changeover_minutes(minutes), minutes),
        <<worst_case_warning(keys, minutes)>>)

WorstCaseMethod_calculate(input_data, config) ==
    IF Len(input_data.models) < 2
    THEN Returned(no_changeover("worst_case", input_data,
                      "Less than 2 models - no changeover needed"),
                  <<"worst_case">>)
    ELSE Returned(worst_case_result("worst_case", input_data,
                      transition_keys(input_data.models),
                      transition_minutes(input_data)),
                  <<"worst_case">>)

\* A stub that returns a zero-changeover result in place of raising.
TSPOptimalMethod_calculate_degraded(input_data, config) ==
    Returned(no_changeover("tsp_optimal", input_data, "Not implemented"),
             <<"tsp_optimal">>)

TSPOptimalMethod_calculate(input_data, config) ==
    Raised("NotImplementedError", "TSP Optimal method is planned", <<"tsp_optimal">>)

\* The method instances: their id and their implemented property.
ChangeoverMethods ==
    { [id |-> "probability_weighted", implemented |-> TRUE],
      [id |-> "simple_average", implemented |-> TRUE],
      [id |-> "worst_case", implemented |-> TRUE],
      [id |-> "tsp_optimal", implemented |-> FALSE] }

\* method.calculate(input_data, config)
method_calculate(method, input_data, config) ==
    CASE method.id = "probability_weighted" ->
             ProbabilityWeightedMethod_calculate(input_data, config)
      [] method.id = "simple_average" ->
             SimpleAverageMethod_calculate(input_data, config)
      [] method.id = "worst_case" ->
             WorstCaseMethod_calculate(input_data, config)
      [] method.id = "tsp_optimal" ->
             TSPOptimalMethod_calculate(input_data, config)

\* ChangeoverMethodRegistry.register on the table methods.
registry_register(methods, method) ==
    [id \in DOMAIN methods \cup {method.id} |->
        IF id = method.id THEN method ELSE methods[id]]

\* ChangeoverMethodRegistry.get
registry_get(methods, method_id) ==
    IF method_id \in DOMAIN methods THEN methods[method_id] ELSE [none |-> TRUE]

\* calculate with the implemented check left out.
registry_calculate_unchecked(methods, method_id, input_data, config) ==
    IF method_id \notin DOMAIN methods
    THEN Raised("ValueError", "Unknown changeover method", <<>>)
    ELSE method_calculate(methods[method_id], input_data, config)

\* ChangeoverMethodRegistry.calculate
registry_calculate(methods, method_id, input_data, config) ==
    IF registry_get(methods, method_id) = [none |-> TRUE]
    THEN Raised("ValueError", "Unknown changeover method", <<>>)
    ELSE IF ~registry_get(methods, method_id).implemented
    THEN Raised("ValueError", "Changeover method not implemented", <<>>)
    ELSE method_calculate(registry_get(methods, method_id), input_data, config)

\* The except clause of calculate_with_fallback: the warning is printed and the
\* fallback's outcome is the outcome of the call.
fallback_outcome(first, second) ==
    [second EXCEPT !.invoked = first.invoked \o second.invoked]

\* The try statement of calculate_with_fallback, catching ValueError only.
try_preferred_value_errors(first, methods, input_data, config, fallback_method_id) ==
    IF first.raised /\ first.error.type = "ValueError"
    THEN fallback_outcome(first,
             registry_calculate(methods, fallback_method_id, input_data, config))
    ELSE first

\* The try statement of calculate_with_fallback: first is the outcome of the
\* preferred method's calculate.
try_preferred(first, methods, input_data, config, fallback_method_id) ==
    IF first.raised
    THEN fallback_outcome(first,
             registry_calculate(methods, fallback_method_id, input_data, config))
    ELSE first

\* ChangeoverMethodRegistry.calculate_with_fallback
calculate_with_fallback(methods, preferred_method_id, input_data, config, fallback_method_id) ==
    try_preferred(registry_calculate(methods, preferred_method_id, input_data, config),
                  methods, input_data, config, fallback_method_id)

\* The registry built by the changeover package.
DefaultRegistry ==
    LET ids == {"probability_weighted", "simple_average", "worst_case"}
    IN  [id \in ids |-> CHOOSE m \in ChangeoverMethods : m.id = id]

\* ------------------------------------------------------------------------
\* run_optimization_for_year as a state machine
\* ------------------------------------------------------------------------

VARIABLES
    data,                       \* the input document
    lines,                      \* lineId -> ProductionLine
    area_idx,                   \* index of the area being processed
    area_schedule,              \* the current area's records in loop order
    remaining_demand_in_area,   \* modelId -> units still unallocated
    pos,                        \* next record of the current area's loops
    unfulfilled_demand_tracker, \* per processed area: its unfulfilled models
    calls,                      \* history: the add_model calls made so far
    changeover_data,            \* the changeover block of the input document
    result,                     \* the year result
    pc,                         \* "area", "tiers", "summary", "done", "error"
    selected_years,             \* how many years the document selects
    year_results,               \* the results of the years already run
    _methods,                   \* the registry: method id -> method
    input_data,                 \* the ChangeoverInput of the registry calls
    config,                     \* the config of the registry calls
    last_call,                  \* the last call made on the registry
    outcome                     \* what that call returned or raised

year_vars == <<data, lines, area_idx, area_schedule, remaining_demand_in_area,
               pos, unfulfilled_demand_tracker, calls, changeover_data, result, pc,
               selected_years, year_results>>

loop_vars == <<selected_years, year_results>>

registry_vars == <<_methods, input_data, config, last_call, outcome>>

vars == <<year_vars, registry_vars>>

None == [none |-> TRUE]

\* The changeover block has not been read yet: the run reads it first when it
\* builds the result (line 519), and that is where its value is drawn.
NotRead == [not_read |-> TRUE]

volumes_by_model == get_volumes_by_year(data.volumes)

compats_by_line == get_compatibilities_by_line(data.compatibilities)

lines_by_area == AreaOrder(data.lines_data)

CurrentArea == lines_by_area[area_idx]

\* 0.01, the tolerance below which a remainder counts as fulfilled.
Tolerance == RoundRat(1, 100, 0)

\* The documents that may select a second year, whose volume records are
\* those of the first: the scenario documents, and the two-area documents
\* that put model-a on both lines and cannot fulfil it on either.
MaxYears == 2

TwoYearInputs ==
    ScenarioInputs \union
    { GenericInput(<<1200, 48000, <<30, 100>>>>, "ICT", vb,
                   <<Compat("line-smt-1", "model-a", 30, 100, 1),
                     Compat("line-2", "model-a", 30, 100, 1)>>,
                   <<"shared", "shared">>) :
        vb \in {<<>>, <<Vol("model-b", 130, 128)>>} }

SelectedYears(d) == IF d \in TwoYearInputs THEN 1..MaxYears ELSE {1}

\* Lines 315-324: a fresh ProductionLine for every line of the input.
fresh_lines ==
    [id \in { data.lines_data[i].id : i \in DOMAIN data.lines_data } |->
        ProductionLine(CHOOSE ld \in SeqToSet(data.lines_data) : ld.id = id)]

Init ==
    /\ IsInput(data)
    /\ lines = fresh_lines
    /\ area_idx = 1
    /\ area_schedule = <<>>
    /\ remaining_demand_in_area = <<>>
    /\ pos = 1
    /\ unfulfilled_demand_tracker = <<>>
    /\ calls = <<>>
    /\ changeover_data = NotRead
    /\ result = None
    /\ pc = "area"
    /\ selected_years \in SelectedYears(data)
    /\ year_results = <<>>
    /\ _methods = DefaultRegistry
    /\ input_data = None
    /\ config = None
    /\ last_call = None
    /\ outcome = None

\* Lines 342-378: collect the area's records and seed its remaining-demand pool.
StartArea ==
    /\ pc = "area"
    /\ LET ac == area_compatibilities(data.lines_data, compats_by_line,
                                      volumes_by_model, CurrentArea)
       IN  /\ area_schedule' = Schedule(ac)
           /\ remaining_demand_in_area' =
                  [m \in models_with_compats_in_area(ac) |->
                      volumes_by_model[m].dailyDemand]
    /\ pos' = 1
    /\ pc' = "tiers"
    /\ UNCHANGED <<registry_vars, changeover_data, loop_vars>>
    /\ UNCHANGED <<data, lines, area_idx, unfulfilled_demand_tracker, calls, result>>

\* Lines 397-400 and 412-415: the model's demand is fulfilled, the record is
\* passed over (continue for the model's first record, break for a later one).
SkipFulfilled ==
    /\ pc = "tiers"
    /\ pos <= Len(area_schedule)
    /\ FLe(remaining_demand_in_area[area_schedule[pos].modelId], Zero)
    /\ pos' = pos + 1
    /\ UNCHANGED <<registry_vars, changeover_data, loop_vars>>
    /\ UNCHANGED <<data, lines, area_idx, area_schedule,
                   remaining_demand_in_area, unfulfilled_demand_tracker, calls,
                   result, pc>>

\* The pool entry with the allocated units added to it.
remaining_after_added(remaining, allocated) ==
    IF FLt(Zero, allocated) THEN FAdd(remaining, allocated) ELSE remaining

\* Lines 432-433: if allocated > 0: remaining_demand_in_area[model_id] -= allocated
remaining_after(remaining, allocated) ==
    IF FLt(Zero, allocated) THEN FSub(remaining, allocated) ELSE remaining

\* Lines 423-437: the call has returned r; the pool and the line are updated.
AllocateResult(compat, current_demand, r) ==
    /\ ~r.raised
    /\ lines' = [lines EXCEPT ![compat.lineId] = r.line]
    /\ remaining_demand_in_area' =
           [remaining_demand_in_area EXCEPT
               ![compat.modelId] = remaining_after(@, r.allocated)]
    /\ calls' = Append(calls,
           [area |-> CurrentArea, lineId |-> compat.lineId,
            modelId |-> compat.modelId, priority |-> compat.priority,
            daily_demand |-> current_demand, allocated |-> r.allocated,
            line_before |-> lines[compat.lineId], line_after |-> r.line])

AllocateCall(compat, current_demand) ==
    /\ FLt(Zero, current_demand)
    /\ AllocateResult(compat, current_demand,
                      add_model(lines[compat.lineId], compat.modelId, current_demand,
                                compat.cycleTime, compat.efficiency, compat.priority))

AllocateCompat(compat) ==
    AllocateCall(compat, remaining_demand_in_area[compat.modelId])

\* Lines 408-437: one add_model call and the update of the pool.
Allocate ==
    /\ pc = "tiers"
    /\ pos <= Len(area_schedule)
    /\ AllocateCompat(area_schedule[pos])
    /\ pos' = pos + 1
    /\ UNCHANGED <<registry_vars, changeover_data, loop_vars>>
    /\ UNCHANGED <<data, area_idx, area_schedule,
                   unfulfilled_demand_tracker, result, pc>>

\* Lines 419 and 97/106: the division by a zero efficiency (or by a zero
\* adjusted cycle time) raises ZeroDivisionError; the run ends in main's handler.
AllocateRaises ==
    /\ pc = "tiers"
    /\ pos <= Len(area_schedule)
    /\ FLt(Zero, remaining_demand_in_area[area_schedule[pos].modelId])
    /\ add_model(lines[area_schedule[pos].lineId], area_schedule[pos].modelId,
                 remaining_demand_in_area[area_schedule[pos].modelId],
                 area_schedule[pos].cycleTime, area_schedule[pos].efficiency,
                 area_schedule[pos].priority).raised
    /\ pc' = "error"
    /\ UNCHANGED <<registry_vars, changeover_data, loop_vars>>
    /\ UNCHANGED <<data, lines, area_idx, area_schedule,
                   remaining_demand_in_area, pos, unfulfilled_demand_tracker,
                   calls, result>>

\* The orders in which a dict built from a set of model ids can iterate.
Orders(S) ==
    { o \in [1..Cardinality(S) -> S] : \A i, j \in DOMAIN o : i # j => o[i] # o[j] }

\* Lines 439-448: the models left with more than the tolerance are recorded for
\* the area, in the iteration order of the pool.
FinishArea ==
    /\ pc = "tiers"
    /\ pos > Len(area_schedule)
    /\ \E order \in Orders({ m \in DOMAIN remaining_demand_in_area :
                               FLt(Tolerance, remaining_demand_in_area[m]) }) :
          unfulfilled_demand_tracker' =
              Append(unfulfilled_demand_tracker,
                     [area |-> CurrentArea,
                      models |-> [i \in DOMAIN order |->
                                    [modelId |-> order[i],
                                     units |-> remaining_demand_in_area[order[i]]]]])
    /\ area_idx' = area_idx + 1
    /\ pc' = IF area_idx < Len(lines_by_area) THEN "area" ELSE "summary"
    /\ UNCHANGED <<registry_vars, changeover_data, loop_vars>>
    /\ UNCHANGED <<data, lines, area_schedule, remaining_demand_in_area,
                   pos, calls, result>>

\* max(items, key=value): the first item with the greatest value.
RECURSIVE MaxByValue(_)
MaxByValue(s) ==
    IF Len(s) = 1 THEN s[1]
    ELSE LET best == MaxByValue(SubSeq(s, 1, Len(s) - 1))
         IN  IF FLt(best.value, s[Len(s)].value) THEN s[Len(s)] ELSE best

LineOrder == [i \in DOMAIN data.lines_data |-> data.lines_data[i].id]

\* list.sort(key=lineName) of the line results: stable, ascending by name.
SortByName(ids) ==
    Concat([k \in DOMAIN NameOrder |->
              SelectSeq(ids, LAMBDA id : lines[id].name = NameOrder[k])])

\* The list with each model's full demand in place of its remainder.
unfulfilled_demand_list_full_demand ==
    Concat([a \in DOMAIN unfulfilled_demand_tracker |->
        LET t == unfulfilled_demand_tracker[a]
        IN  [i \in DOMAIN t.models |->
               [modelId |-> t.models[i].modelId,
                area |-> t.area,
                unfulfilledUnitsDaily |->
                    Round2(volumes_by_model[t.models[i].modelId].dailyDemand),
                demandUnitsDaily |->
                    Round2(volumes_by_model[t.models[i].modelId].dailyDemand)]]])

\* Lines 549-570: the unfulfilledDemand list of the year result.
unfulfilled_demand_list ==
    Concat([a \in DOMAIN unfulfilled_demand_tracker |->
        LET t == unfulfilled_demand_tracker[a]
        IN  [i \in DOMAIN t.models |->
               [modelId |-> t.models[i].modelId,
                area |-> t.area,
                unfulfilledUnitsDaily |-> Round2(t.models[i].units),
                demandUnitsDaily |->
                    Round2(volumes_by_model[t.models[i].modelId].dailyDemand)]]])

\* Lines 576-614: the average utilization of each area's lines.
area_utilizations ==
    [a \in DOMAIN lines_by_area |->
        LET ids == LineIdsInArea(data.lines_data, lines_by_area[a])
            total_utilization ==
                FSum([i \in DOMAIN ids |-> utilizationPercent(lines[ids[i]])])
        IN  [area |-> lines_by_area[a],
             value |-> FDiv(total_utilization, FromInt(Len(ids)))]]

\* Lines 632-637: the areas that have unfulfilled models, with their totals.
areas_with_unfulfilled ==
    LET nonempty == SelectSeq(unfulfilled_demand_tracker,
                              LAMBDA t : t.models # <<>>)
    IN  [a \in DOMAIN nonempty |->
            [area |-> nonempty[a].area,
             models |-> nonempty[a].models,
             value |-> FSum([i \in DOMAIN nonempty[a].models |->
                               nonempty[a].models[i].units])]]

AreaUtilization(area) ==
    LET i == CHOOSE k \in DOMAIN area_utilizations : area_utilizations[k].area = area
    IN  area_utilizations[i].value

\* Lines 659-669: the unfulfilled units of the models that have a record on
\* the line, one term per record, in the order of the line's records.
line_unfulfilled(line_id, models_unfulfilled) ==
    LET line_compats == CompatsOf(compats_by_line, line_id)
        units(model_id) ==
            LET found == SelectSeq(models_unfulfilled,
                                   LAMBDA u : u.modelId = model_id)
            IN  IF found # <<>> /\ FLt(Zero, found[1].units)
                THEN <<found[1].units>> ELSE <<>>
    IN  FSum(Concat([k \in DOMAIN line_compats |-> units(line_compats[k].modelId)]))

\* list.sort(key=-utilizationPercent): stable, highest first.
RECURSIVE SortByUtilization(_)
SortByUtilization(s) ==
    IF s = <<>> THEN <<>>
    ELSE LET top == CHOOSE i \in DOMAIN s :
                       /\ \A j \in DOMAIN s :
                             ~FLt(s[i].utilizationPercent, s[j].utilizationPercent)
                       /\ \A j \in 1..(i - 1) :
                             FLt(s[j].utilizationPercent, s[i].utilizationPercent)
         IN  <<s[top]>> \o SortByUtilization(SubSeq(s, 1, top - 1)
                                              \o SubSeq(s, top + 1, Len(s)))

\* Lines 648-700: the lines of the area at 85% utilization or more (the list
\* of each line's top unfulfilled models is left out of the record).
build_constrained_lines(constraint_area, models_unfulfilled) ==
    LET flagged == SelectSeq(LineIdsInArea(data.lines_data, constraint_area),
                       LAMBDA id : ~FLt(utilizationPercent(lines[id]), FromInt(85)))
    IN  SortByUtilization(
            [i \in DOMAIN flagged |->
                [lineId |-> flagged[i],
                 lineName |-> lines[flagged[i]].name,
                 lineType |-> lines[flagged[i]].lineType,
                 utilizationPercent |-> Round2(utilizationPercent(lines[flagged[i]])),
                 unfulfilledUnitsDaily |->
                     Round2(line_unfulfilled(flagged[i], models_unfulfilled))]])

\* The classification that calls a list without dedicated lines shared.
determine_constraint_type_shared_default(constrained_lines) ==
    IF \E i \in DOMAIN constrained_lines :
           constrained_lines[i].lineType = "dedicated"
    THEN "dedicated_line_bottleneck" ELSE "shared_capacity_constraint"

\* Lines 702-715.
determine_constraint_type(constrained_lines) ==
    LET dedicated_count == Cardinality({ i \in DOMAIN constrained_lines :
                               constrained_lines[i].lineType = "dedicated" })
        shared_count == Cardinality({ i \in DOMAIN constrained_lines :
                               constrained_lines[i].lineType = "shared" })
    IN  IF constrained_lines = <<>> THEN "shared_capacity_constraint"
        ELSE IF dedicated_count > 0 /\ shared_count = 0
        THEN "dedicated_line_bottleneck"
        ELSE IF shared_count > 0 /\ dedicated_count = 0
        THEN "shared_capacity_constraint"
        ELSE "mixed_constraint"

\* Lines 739-756 and 768-781: the record of the selected constraint.
constraint_record(area, reason, utilization, unfulfilled, constrained_lines) ==
    [area |-> area, reason |-> reason,
     utilizationPercent |-> Round2(utilization),
     unfulfilledUnitsDaily |-> unfulfilled,
     constraintType |-> determine_constraint_type(constrained_lines),
     constrainedLines |-> constrained_lines]

\* The selection with the utilization rule tried before the unfulfilled demand.
system_constraint_utilization_first ==
    IF area_utilizations # <<>>
          /\ FLe(Hundred, MaxByValue(area_utilizations).value)
    THEN LET m == MaxByValue(area_utilizations)
         IN  constraint_record(m.area, "highest_utilization", m.value, Zero,
                               build_constrained_lines(m.area, <<>>))
    ELSE IF areas_with_unfulfilled # <<>>
    THEN LET c == MaxByValue(areas_with_unfulfilled)
         IN  constraint_record(c.area, "unfulfilled_demand",
                               AreaUtilization(c.area), Round2(c.value),
                               build_constrained_lines(c.area, c.models))
    ELSE None

\* Lines 733-785: selection of the system constraint.
system_constraint ==
    IF areas_with_unfulfilled # <<>>
    THEN LET c == MaxByValue(areas_with_unfulfilled)
         IN  constraint_record(c.area, "unfulfilled_demand",
                               AreaUtilization(c.area), Round2(c.value),
                               build_constrained_lines(c.area, c.models))
    ELSE IF area_utilizations # <<>>
    THEN LET m == MaxByValue(area_utilizations)
         IN  IF FLe(Hundred, m.value)
             THEN constraint_record(m.area, "highest_utilization", m.value, Zero,
                                    build_constrained_lines(m.area, <<>>))
             ELSE None
    ELSE None

\* Lines 450-467: the utilization buckets of the summary.
LineUtilizations ==
    [i \in DOMAIN LineOrder |-> utilizationPercent(lines[LineOrder[i]])]

overloaded ==
    Cardinality({ i \in DOMAIN LineUtilizations :
                    FLt(Hundred, LineUtilizations[i]) })

balanced ==
    Cardinality({ i \in DOMAIN LineUtilizations :
                    /\ ~FLt(Hundred, LineUtilizations[i])
                    /\ FLe(FromInt(70), LineUtilizations[i]) })

underutilized ==
    Cardinality({ i \in DOMAIN LineUtilizations :
                    /\ ~FLt(Hundred, LineUtilizations[i])
                    /\ ~FLe(FromInt(70), LineUtilizations[i]) })

\* ------------------------------------------------------------------------
\* The changeover section of a line's result
\* ------------------------------------------------------------------------

\* models_data of main (lines 862-869): model id -> family; model-c is not
\* among the document's models.
models_data ==
    [m \in {"model-a", "model-b"} |->
        [family |-> IF m = "model-a" THEN "family-1" ELSE "family-2"]]

LineOverride(line_id, from, to, minutes) ==
    [lineId |-> line_id, fromModelId |-> from, toModelId |-> to,
     changeoverMinutes |-> minutes]

FamilyDefault(from, to, minutes) ==
    [fromFamily |-> from, toFamily |-> to, changeoverMinutes |-> minutes]

\* The values of the document's changeover block: absent, empty, and blocks
\* with and without calculationMethod and globalDefaultMinutes.
ChangeoverBlocks ==
    { None,
      [empty |-> TRUE],
      [familyDefaults |-> <<FamilyDefault("family-2", "family-1", 15),
                            FamilyDefault("family-1", "family-2", 25)>>,
       lineOverrides |-> <<LineOverride("line-smt-1", "model-a", "model-b", 5)>>],
      [calculationMethod |-> "simple_average", globalDefaultMinutes |-> 20,
       familyDefaults |-> <<>>,
       lineOverrides |-> <<LineOverride("line-2", "model-a", "model-b", 5),
                           LineOverride("line-2", "model-a", "model-b", 10)>>],
      [calculationMethod |-> "tsp_optimal", globalDefaultMinutes |-> 20,
       familyDefaults |-> <<>>, lineOverrides |-> <<>>],
      [calculationMethod |-> "unknown_method", globalDefaultMinutes |-> 20,
       familyDefaults |-> <<>>, lineOverrides |-> <<>>] }

\* if changeover_data: None and the empty dict are false.
HasChangeover(cd) == cd # None /\ "empty" \notin DOMAIN cd

\* Line 519: changeover_data.get('calculationMethod', 'probability_weighted')
changeover_method(cd) ==
    IF "calculationMethod" \in DOMAIN cd THEN cd.calculationMethod
    ELSE "probability_weighted"

\* Line 219: changeover_data.get('globalDefaultMinutes', 30)
global_default(cd) ==
    IF "globalDefaultMinutes" \in DOMAIN cd THEN cd.globalDefaultMinutes ELSE 30

\* models_data.get(model_id, {}).get('family', 'Unknown')
family_of(md, model_id) ==
    IF model_id \in DOMAIN md THEN md[model_id].family ELSE "Unknown"

\* Lines 222-232: the two indexes; a later entry with the same key replaces
\* an earlier one.
family_defaults(cd, key) ==
    SelectSeq(cd.familyDefaults,
              LAMBDA fd : <<fd.fromFamily, fd.toFamily>> = key)

line_overrides(cd, line_id, key) ==
    SelectSeq(cd.lineOverrides,
              LAMBDA lo : lo.lineId = line_id
                          /\ <<lo.fromModelId, lo.toModelId>> = key)

\* The entry with the family default tried before the line's override.
changeover_minutes_family_first(cd, md, line_id, from, to) ==
    LET overrides == line_overrides(cd, line_id, <<from, to>>)
        defaults == family_defaults(cd, <<family_of(md, from), family_of(md, to)>>)
    IN  IF from = to THEN 0
        ELSE IF defaults # <<>> THEN defaults[Len(defaults)].changeoverMinutes
        ELSE IF overrides # <<>> THEN overrides[Len(overrides)].changeoverMinutes
        ELSE global_default(cd)

\* Lines 235-251: one entry of the line's matrix, in minutes.
changeover_minutes(cd, md, line_id, from, to) ==
    LET overrides == line_overrides(cd, line_id, <<from, to>>)
        defaults == family_defaults(cd, <<family_of(md, from), family_of(md, to)>>)
    IN  IF from = to THEN 0
        ELSE IF overrides # <<>> THEN overrides[Len(overrides)].changeoverMinutes
        ELSE IF defaults # <<>> THEN defaults[Len(defaults)].changeoverMinutes
        ELSE global_default(cd)

\* Lines 234-251: the matrix over the pairs of the line's assigned models.
line_changeover_matrix(line, md, cd) ==
    LET ids == { line.assignments[i].modelId : i \in DOMAIN line.assignments }
    IN  [key \in ids \X ids |->
            WholeMinutes(changeover_minutes(cd, md, line.id, key[1], key[2]))]

\* Lines 205-214 and 253-267: the ChangeoverInput of the line.
line_changeover_input(line, md, cd) ==
    [models |-> [i \in DOMAIN line.assignments |->
                   [model_id |-> line.assignments[i].modelId,
                    allocated_units_daily |->
                        line.assignments[i].allocatedUnitsDaily]],
     changeover_matrix |-> line_changeover_matrix(line, md, cd),
     num_changeovers_per_day |-> Max(1, Len(line.assignments) - 1),
     time_available_daily |-> line.timeAvailableDaily]

\* Lines 273-285: the section built from the strategy's result.
changeover_section(line, method_id, changeover_result) ==
    LET util_with_changeover ==
            IF FLt(Zero, line.timeAvailableDaily)
            THEN FMul(FDiv(FAdd(line.timeUsedDaily,
                                changeover_result.time_used_changeover),
                           line.timeAvailableDaily), Hundred)
            ELSE Zero
    IN  [timeUsedChangeover |-> Round2(changeover_result.time_used_changeover),
         estimatedChangeoverCount |-> changeover_result.estimated_changeover_count,
         expectedChangeoverTime |-> Round2(changeover_result.expected_changeover_time),
         utilizationWithChangeover |-> Round2(util_with_changeover),
         changeoverImpactPercent |->
             Round2(FSub(util_with_changeover, utilizationPercent(line))),
         methodUsed |-> method_id]

\* The try statement leaving a section that records the failure.
changeover_outcome_failure_recorded(line, method_id, called) ==
    IF called.raised THEN [failed |-> TRUE, methodUsed |-> method_id]
    ELSE changeover_section(line, method_id, called.result)

\* Lines 270-288: the try statement; any exception gives None.
changeover_outcome(line, method_id, called) ==
    IF called.raised THEN None
    ELSE changeover_section(line, method_id, called.result)

\* calculate_changeover_for_line, with the package's registry as methods.
calculate_changeover_for_line(methods, line, md, cd, method_id) ==
    IF cd = None \/ Len(line.assignments) < 2 THEN None
    ELSE changeover_outcome(line, method_id,
             registry_calculate(methods, method_id,
                                line_changeover_input(line, md, cd), None))

\* Lines 533-542: the changeover section of a line of the result, or None.
line_changeover(methods, line, md, cd) ==
    IF HasChangeover(cd) /\ md # <<>>
    THEN calculate_changeover_for_line(methods, line, md, cd, changeover_method(cd))
    ELSE None

\* Lines 595-599: the models that have volume and a record on a line of the area.
models_in_area(area) ==
    models_with_compats_in_area(
        area_compatibilities(data.lines_data, compats_by_line, volumes_by_model, area))

\* The orders in which the summary can iterate each area's set of models.
SummaryOrders ==
    { f \in [DOMAIN lines_by_area ->
               UNION { Orders(models_in_area(lines_by_area[a])) :
                       a \in DOMAIN lines_by_area }] :
        \A a \in DOMAIN lines_by_area :
            f[a] \in Orders(models_in_area(lines_by_area[a])) }

\* Lines 601-602: the area's demand, summed in the iteration order of the set.
total_demand_daily(order) ==
    FSum([i \in DOMAIN order |-> volumes_by_model[order[i]].dailyDemand])

\* Lines 604-607: the units of every assignment of every line of the area.
total_allocated_daily(area) ==
    LET ids == LineIdsInArea(data.lines_data, area)
    IN  FSum(Concat([i \in DOMAIN ids |->
                [k \in DOMAIN lines[ids[i]].assignments |->
                    lines[ids[i]].assignments[k].allocatedUnitsDaily]]))

\* Lines 585-588: the lines of the area at 95 percent or more.
lines_at_capacity(area) ==
    LET ids == LineIdsInArea(data.lines_data, area)
    IN  Cardinality({ i \in DOMAIN ids :
                        FLe(FromInt(95), utilizationPercent(lines[ids[i]])) })

\* Lines 609-626: one entry of areaSummary.
area_summary(area, demand, allocated, avg_utilization, constraint) ==
    [area |-> area,
     totalDemandUnitsDaily |-> Round2(demand),
     totalAllocatedUnitsDaily |-> Round2(allocated),
     totalUnfulfilledUnitsDaily |-> Round2(FSub(demand, allocated)),
     fulfillmentPercent |->
         Round2(IF FLt(Zero, demand) THEN FMul(FDiv(allocated, demand), Hundred)
                ELSE Hundred),
     averageUtilization |-> Round2(avg_utilization),
     linesAtCapacity |-> lines_at_capacity(area),
     totalLines |-> Len(LineIdsInArea(data.lines_data, area)),
     isSystemConstraint |-> constraint # None /\ constraint.area = area]

\* The demand totals of the areas that the iteration orders can produce.
SummaryDemands ==
    { [a \in DOMAIN lines_by_area |-> total_demand_daily(orders[a])] :
        orders \in SummaryOrders }

\* Lines 572-626 and 787-792: the areaSummary list of the year result.
area_summary_list(demands, utilizations, constraint) ==
    [a \in DOMAIN lines_by_area |->
        area_summary(lines_by_area[a], demands[a],
                     total_allocated_daily(lines_by_area[a]),
                     utilizations[a].value, constraint)]

\* Lines 450-832: the year result is assembled.
BuildResult ==
    /\ pc = "summary"
    /\ changeover_data' \in IF changeover_data = NotRead THEN ChangeoverBlocks
                           ELSE {changeover_data}
    /\ \E demands \in SummaryDemands : result' =
          [lines |-> [i \in DOMAIN LineOrder |->
                        LET l == lines[SortByName(LineOrder)[i]]
                        IN  [lineId |-> l.id, lineName |-> l.name,
                             area |-> l.area, lineType |-> l.lineType,
                             timeAvailableDaily |-> l.timeAvailableDaily,
                             timeUsedDaily |-> Round2(l.timeUsedDaily),
                             utilizationPercent |-> Round2(utilizationPercent(l)),
                             assignments |-> l.assignments,
                             changeover |->
                                 line_changeover(_methods, l, models_data,
                                                 changeover_data')]],
           unfulfilledDemand |-> unfulfilled_demand_list,
           areaSummary |-> area_summary_list(demands, area_utilizations,
                                            system_constraint),
           systemConstraint |-> system_constraint,
           summary |-> [totalLines |-> Len(LineOrder),
                        overloadedLines |-> overloaded,
                        balancedLines |-> balanced,
                        underutilizedLines |-> underutilized]]
    /\ pc' = "done"
    /\ UNCHANGED <<registry_vars, loop_vars>>
    /\ UNCHANGED <<data, lines, area_idx, area_schedule,
                   remaining_demand_in_area, pos, unfulfilled_demand_tracker, calls>>

\* The lines as the previous year left them.
year_start_lines_carried == lines

\* Lines 315-324: every year run builds its lines anew.
year_start_lines == fresh_lines

\* main, lines 886-899: the year's result is kept and the next selected year
\* is run on the same lines_data, compats_by_line and changeover block.
NextYear ==
    /\ pc = "done"
    /\ Len(year_results) + 1 < selected_years
    /\ year_results' = Append(year_results, result)
    /\ lines' = year_start_lines
    /\ area_idx' = 1
    /\ area_schedule' = <<>>
    /\ remaining_demand_in_area' = <<>>
    /\ pos' = 1
    /\ unfulfilled_demand_tracker' = <<>>
    /\ calls' = <<>>
    /\ result' = None
    /\ pc' = "area"
    /\ UNCHANGED <<registry_vars, data, changeover_data, selected_years>>

Next ==
    \/ StartArea
    \/ SkipFulfilled
    \/ Allocate
    \/ AllocateRaises
    \/ FinishArea
    \/ BuildResult
    \/ NextYear

Spec == Init /\ [][Next]_vars

\* ------------------------------------------------------------------------
\* The registry as a state machine: methods are registered and the two
\* calculation entry points are called, one call after the other, in any order
\* ------------------------------------------------------------------------

MethodIds == { m.id : m \in ChangeoverMethods } \cup {"unknown_method"}

\* A new ChangeoverMethodRegistry(); no year run is in progress.
InitRegistry ==
    /\ _methods = <<>>
    /\ input_data \in ChangeoverInputs
    /\ config \in Configs
    /\ last_call = None
    /\ outcome = None
    /\ data = None
    /\ lines = <<>>
    /\ area_idx = 1
    /\ area_schedule = <<>>
    /\ remaining_demand_in_area = <<>>
    /\ pos = 1
    /\ unfulfilled_demand_tracker = <<>>
    /\ calls = <<>>
    /\ changeover_data = NotRead
    /\ result = None
    /\ pc = "idle"
    /\ selected_years = 1
    /\ year_results = <<>>

\* registry.register(method), between two calculations.
Register ==
    /\ last_call = None
    /\ \E method \in ChangeoverMethods :
          _methods' = registry_register(_methods, method)
    /\ UNCHANGED <<input_data, config, last_call, outcome, year_vars>>

\* registry.calculate(method_id, input_data, config)
Calculate ==
    /\ last_call = None
    /\ \E method_id \in MethodIds :
          /\ last_call' = [op |-> "calculate", method_id |-> method_id,
                           methods_before |-> _methods]
          /\ outcome' = registry_calculate(_methods, method_id, input_data, config)
    /\ UNCHANGED <<_methods, input_data, config, year_vars>>

\* registry.calculate_with_fallback(preferred, input_data, config, fallback)
CalculateWithFallback ==
    /\ last_call = None
    /\ \E preferred_method_id \in MethodIds, fallback_method_id \in MethodIds :
          /\ last_call' = [op |-> "calculate_with_fallback",
                           method_id |-> preferred_method_id,
                           fallback_method_id |-> fallback_method_id,
                           methods_before |-> _methods]
          /\ outcome' = calculate_with_fallback(_methods, preferred_method_id,
                                                input_data, config,
                                                fallback_method_id)
    /\ UNCHANGED <<_methods, input_data, config, year_vars>>

\* The caller has taken the result or handled the exception and goes on.
CallerContinues ==
    /\ last_call # None
    /\ last_call' = None
    /\ outcome' = None
    /\ UNCHANGED <<_methods, input_data, config, year_vars>>

NextRegistry ==
    \/ Register
    \/ Calculate
    \/ CalculateWithFallback
    \/ CallerContinues

SpecRegistry == InitRegistry /\ [][NextRegistry]_vars

\* ------------------------------------------------------------------------
\* Properties of the allocation pass and of the year result
\* ------------------------------------------------------------------------

\* The assignments of one model on the lines of one area, in the order of
\* lines_data and of each line's assignments list.
AssignmentsOf(area, model_id) ==
    LET ids == LineIdsInArea(data.lines_data, area)
    IN  Concat([i \in DOMAIN ids |->
                  SelectSeq(lines[ids[i]].assignments,
                            LAMBDA a : a.modelId = model_id)])

AllAssignments ==
    Concat([i \in DOMAIN LineOrder |-> lines[LineOrder[i]].assignments])

\* The calls of the history that returned more than 0 units.
AllocatingCalls == SelectSeq(calls, LAMBDA c : FLt(Zero, c.allocated))

\* C1 (as stated): on every line whose capacity is not negative, after any
\* sequence of add_model calls, timeUsedDaily <= timeAvailableDaily.
C1_TimeUsedWithinAvailable ==
    \A id \in DOMAIN lines :
        FLe(Zero, lines[id].timeAvailableDaily)
            => FLe(lines[id].timeUsedDaily, lines[id].timeAvailableDaily)

\* C2 (as stated): for every area and every model with volume, the sum of
\* allocatedUnitsDaily over the model's assignments on the lines of the area
\* does not exceed the model's full daily demand.
C2_AllocatedWithinDemand ==
    \A a \in DOMAIN lines_by_area : \A m \in DOMAIN volumes_by_model :
        LET assigned == AssignmentsOf(lines_by_area[a], m)
        IN  FLe(FSum([i \in DOMAIN assigned |-> assigned[i].allocatedUnitsDaily]),
                volumes_by_model[m].dailyDemand)

\* C3: every recorded assignment has 0 <= allocatedUnitsDaily <=
\* demandUnitsDaily; the assignments correspond one to one, in order, to the
\* calls that returned more than 0 units, and demandUnitsDaily is the
\* (two-decimal) remaining demand presented to that call, which is never more
\* than the model's full demand; a call that returns 0 units records no
\* assignment and leaves the line as it was.
C3_AssignmentBounds ==
    /\ \A i \in DOMAIN AllAssignments :
          /\ FLe(Zero, AllAssignments[i].allocatedUnitsDaily)
          /\ FLe(AllAssignments[i].allocatedUnitsDaily,
                 AllAssignments[i].demandUnitsDaily)
    /\ \A id \in DOMAIN lines :
          LET made == SelectSeq(AllocatingCalls, LAMBDA c : c.lineId = id)
          IN  /\ Len(lines[id].assignments) = Len(made)
              /\ \A i \in DOMAIN made :
                    /\ lines[id].assignments[i].modelId = made[i].modelId
                    /\ lines[id].assignments[i].demandUnitsDaily =
                           Round2(made[i].daily_demand)
                    /\ lines[id].assignments[i].allocatedUnitsDaily =
                           Round2(made[i].allocated)
                    /\ FLe(made[i].allocated, made[i].daily_demand)
    /\ \A i \in DOMAIN calls :
          calls[i].allocated = Zero => calls[i].line_after = calls[i].line_before

\* C3's case: a call has returned 0 units, and an assignment holds fewer units
\* than the demand presented to its call.
C3_Witness ==
    /\ \E i \in DOMAIN calls : calls[i].allocated = Zero
    /\ \E i \in DOMAIN AllAssignments :
          FLt(AllAssignments[i].allocatedUnitsDaily,
              AllAssignments[i].demandUnitsDaily)

\* The input of the priority-distribution test: both lines with 28,800 s,
\* A at priority 1 on both lines, B at 2 and 1, C at 1 and 2.
IsPriorityScenario ==
    /\ data \in ScenarioInputs
    /\ data.lines_data[2].timeAvailableDaily = 28800
    /\ data.compatibilities[3].priority = 2
    /\ data.compatibilities[4].priority = 1
    /\ data.compatibilities[5].priority = 1
    /\ data.compatibilities[6].priority = 2

HasAssignment(line_id, model_id, priority) ==
    \E i \in DOMAIN result.lines :
        /\ result.lines[i].lineId = line_id
        /\ \E k \in DOMAIN result.lines[i].assignments :
              /\ result.lines[i].assignments[k].modelId = model_id
              /\ result.lines[i].assignments[k].priority = priority
              /\ FLt(Zero, result.lines[i].assignments[k].allocatedUnitsDaily)

\* C4: the run on the priority-distribution scenario ends with Model C assigned
\* at priority 1 on line 1 and at priority 2 on line 2, Model B assigned at
\* priority 1 on line 2, and Model A assigned on at least one line.
C4_PriorityDistribution ==
    (IsPriorityScenario /\ pc = "done") =>
        /\ HasAssignment("line-smt-1", "model-c", 1)
        /\ HasAssignment("line-smt-2", "model-c", 2)
        /\ HasAssignment("line-smt-2", "model-b", 1)
        /\ \/ HasAssignment("line-smt-1", "model-a", 1)
           \/ HasAssignment("line-smt-2", "model-a", 1)

C4_Witness == IsPriorityScenario /\ pc = "done"

\* C5 (as stated): the allocation step never raises, whatever the demand, the
\* capacity and the efficiency of the record it processes.
C5_AllocationNeverRaises == pc # "error"

\* C6 (as stated): a line with timeAvailableDaily = 0 has no assignments,
\* timeUsedDaily = 0 and utilizationPercent = 0, and no record of that line
\* raises a division error.
C6_ZeroCapacityLine ==
    \A id \in DOMAIN lines :
        lines[id].timeAvailableDaily = Zero =>
            /\ lines[id].assignments = <<>>
            /\ lines[id].timeUsedDaily = Zero
            /\ utilizationPercent(lines[id]) = Zero
            /\ ~(pc = "error" /\ area_schedule[pos].lineId = id)

\* The total of the unfulfilled units recorded for an area, and the areas that
\* have any.
UnfulfilledTotal(area) ==
    LET t == CHOOSE e \in SeqToSet(unfulfilled_demand_tracker) : e.area = area
    IN  FSum([i \in DOMAIN t.models |-> t.models[i].units])

UnfulfilledAreas ==
    { t.area : t \in { e \in SeqToSet(unfulfilled_demand_tracker) : e.models # <<>> } }

AreasAtFullUtilization ==
    { lines_by_area[a] : a \in { k \in DOMAIN lines_by_area :
                                   FLe(Hundred, AreaUtilization(lines_by_area[k])) } }

\* C7: if some area has unfulfilled demand, the system constraint is an area
\* with the largest total of unfulfilled units, with reason
\* 'unfulfilled_demand', whatever the utilizations; otherwise, if some area
\* averages 100% or more, it is an area with the highest average utilization,
\* with reason 'highest_utilization'; otherwise it is null.  It is null exactly
\* when no area has unfulfilled demand and no area averages 100% or more.
C7_SystemConstraintSelection ==
    pc = "done" =>
        LET sc == result.systemConstraint
        IN  /\ UnfulfilledAreas # {} =>
                  /\ sc # None
                  /\ sc.reason = "unfulfilled_demand"
                  /\ sc.area \in UnfulfilledAreas
                  /\ \A a \in UnfulfilledAreas :
                        FLe(UnfulfilledTotal(a), UnfulfilledTotal(sc.area))
            /\ (UnfulfilledAreas = {} /\ AreasAtFullUtilization # {}) =>
                  /\ sc # None
                  /\ sc.reason = "highest_utilization"
                  /\ sc.area \in AreasAtFullUtilization
                  /\ \A a \in DOMAIN lines_by_area :
                        FLe(AreaUtilization(lines_by_area[a]),
                            AreaUtilization(sc.area))
            /\ sc = None <=> (UnfulfilledAreas = {} /\ AreasAtFullUtilization = {})

\* C7's case: an area has unfulfilled demand while an area averages 100%, and
\* the constraint is selected for the unfulfilled demand.
C7_Witness ==
    /\ pc = "done"
    /\ UnfulfilledAreas # {}
    /\ AreasAtFullUtilization # {}
    /\ result.systemConstraint.reason = "unfulfilled_demand"

\* The entries that the year result reports (or, before it is built, will
\* report) for the area whose pass has just ended, and that area's pool.
FinishedArea == lines_by_area[area_idx - 1]

ReportedUnfulfilled ==
    SelectSeq(IF pc = "done" THEN result.unfulfilledDemand
              ELSE unfulfilled_demand_list,
              LAMBDA u : u.area = FinishedArea)

AreaPassEnded == pc \in {"area", "summary", "done"} /\ area_idx > 1

\* The reported models are exactly those of the pool above the tolerance,
\* each once; RemainderOf is the pool's remainder behind a reported entry.
ReportedModels ==
    /\ \A m \in DOMAIN remaining_demand_in_area :
          FLt(Tolerance, remaining_demand_in_area[m])
              <=> \E i \in DOMAIN ReportedUnfulfilled :
                     ReportedUnfulfilled[i].modelId = m
    /\ \A i, j \in DOMAIN ReportedUnfulfilled :
          ReportedUnfulfilled[i].modelId = ReportedUnfulfilled[j].modelId => i = j
    /\ \A i \in DOMAIN ReportedUnfulfilled :
          ReportedUnfulfilled[i].modelId \in DOMAIN remaining_demand_in_area

RemainderOf(i) == remaining_demand_in_area[ReportedUnfulfilled[i].modelId]

\* C8 (as stated): after an area's pass, the models reported as unfulfilled
\* for the area are exactly those whose remaining demand exceeds 0.01, each
\* with exactly its remainder.
C8_ReportedRemainder ==
    AreaPassEnded =>
        /\ ReportedModels
        /\ \A i \in DOMAIN ReportedUnfulfilled :
              ReportedUnfulfilled[i].unfulfilledUnitsDaily = RemainderOf(i)

\* C8 (amended): after an area's pass, the models reported as unfulfilled for
\* the area are exactly those whose remaining demand exceeds 0.01, each once,
\* with its remainder rounded to two decimals.
C8_ReportedRoundedRemainder ==
    AreaPassEnded =>
        /\ ReportedModels
        /\ \A i \in DOMAIN ReportedUnfulfilled :
              ReportedUnfulfilled[i].unfulfilledUnitsDaily = Round2(RemainderOf(i))

\* C8's case: a result reports a model whose remainder is changed by the
\* rounding, next to a model of the pool that is not reported.
C8_Witness ==
    /\ pc = "done"
    /\ \E i \in DOMAIN ReportedUnfulfilled :
          ReportedUnfulfilled[i].unfulfilledUnitsDaily #
              remaining_demand_in_area[ReportedUnfulfilled[i].modelId]
    /\ \E m \in DOMAIN remaining_demand_in_area :
          ~FLt(Tolerance, remaining_demand_in_area[m])

\* ------------------------------------------------------------------------
\* Properties of the registry
\* ------------------------------------------------------------------------

IsCall(op) == last_call # None /\ last_call.op = op

Registered(method_id) == method_id \in DOMAIN _methods

Usable(method_id) == Registered(method_id) /\ _methods[method_id].implemented

\* The preferred method of the last call fails: its id is unknown, it is not
\* implemented, or its calculate raises.
PreferredFails ==
    \/ ~Usable(last_call.method_id)
    \/ method_calculate(_methods[last_call.method_id], input_data, config).raised

\* The outcome is what the strategy computes (its result, or the error it
\* raises) on the input and config of the call.
OutcomeOf(method_id) ==
    LET computed == method_calculate(_methods[method_id], input_data, config)
    IN  /\ outcome.raised = computed.raised
        /\ computed.raised => outcome.error = computed.error
        /\ ~computed.raised =>
              /\ outcome.result = computed.result
              /\ outcome.result.method_used = method_id

RejectedAs(method_id, message) ==
    /\ outcome.raised
    /\ outcome.error = [type |-> "ValueError", message |-> message]
    /\ \A i \in DOMAIN outcome.invoked : outcome.invoked[i] # method_id

\* C9 (as stated): calculate_with_fallback does not raise when the fallback id
\* names a registered, implemented method.
C9_NeverRaisesWithUsableFallback ==
    (IsCall("calculate_with_fallback") /\ Usable(last_call.fallback_method_id))
        => ~outcome.raised

\* C9 (amended): when the preferred method fails for any reason (unknown id,
\* not implemented, or an error raised inside its calculate), the outcome of
\* calculate_with_fallback is the outcome of the fallback call: the result
\* computed by the fallback method when it is registered and implemented and
\* its own calculate does not raise, and otherwise the fallback call's own
\* failure; when the preferred method succeeds its result is returned.
C9_FallbackOutcome ==
    IsCall("calculate_with_fallback") =>
        /\ (PreferredFails /\ Usable(last_call.fallback_method_id))
              => OutcomeOf(last_call.fallback_method_id)
        /\ (PreferredFails /\ ~Registered(last_call.fallback_method_id))
              => RejectedAs(last_call.fallback_method_id, "Unknown changeover method")
        /\ (PreferredFails /\ Registered(last_call.fallback_method_id)
                           /\ ~Usable(last_call.fallback_method_id))
              => RejectedAs(last_call.fallback_method_id,
                            "Changeover method not implemented")
        /\ ~PreferredFails => OutcomeOf(last_call.method_id)

\* C9's case: the preferred method raised inside its calculate and the call
\* returned the result of the fallback method.
C9_Witness ==
    /\ IsCall("calculate_with_fallback")
    /\ Usable(last_call.method_id)
    /\ PreferredFails
    /\ last_call.fallback_method_id # last_call.method_id
    /\ ~outcome.raised
    /\ outcome.result.method_used = last_call.fallback_method_id

\* C10: registry.calculate fails with 'Unknown changeover method' when the id
\* is not registered and with 'Changeover method not implemented' when the
\* registered method's implemented flag is false; in both cases no strategy's
\* calculate has been invoked and the table is as it was before the call.
C10_CalculateRejects ==
    IsCall("calculate") =>
        /\ ~Registered(last_call.method_id) =>
              /\ RejectedAs(last_call.method_id, "Unknown changeover method")
              /\ outcome.invoked = <<>>
        /\ (Registered(last_call.method_id) /\ ~Usable(last_call.method_id)) =>
              /\ RejectedAs(last_call.method_id, "Changeover method not implemented")
              /\ outcome.invoked = <<>>
        /\ _methods = last_call.methods_before

\* C10's case: calculate was called for a registered method that is not
\* implemented, next to registered implemented ones.
C10_Witness ==
    /\ IsCall("calculate")
    /\ Registered(last_call.method_id)
    /\ ~Usable(last_call.method_id)
    /\ \E id \in DOMAIN _methods : Usable(id)
    /\ outcome.raised


\* The last call asks for the TSPOptimal strategy (as the method of calculate,
\* or as the preferred method of calculate_with_fallback).
RequestsTSP == last_call # None /\ last_call.method_id = "tsp_optimal"

\* C11 (as stated): every call that requests the TSPOptimal strategy ends in a
\* failure delivered to the caller, never in a result.
C11_TSPHardRejection == RequestsTSP => outcome.raised

\* C11 (amended): TSPOptimal's own calculate raises NotImplementedError;
\* registry.calculate for it raises ValueError without invoking a strategy
\* ('not implemented' when it is registered, 'unknown method' when it is not);
\* calculate_with_fallback with it as the preferred id never invokes it and
\* ends as the fallback call ends: with the fallback method's result when that
\* call succeeds, with a failure only when the fallback call fails.
C11_TSPRejectedOrFallback ==
    /\ input_data # None =>
          /\ TSPOptimalMethod_calculate(input_data, config).raised
          /\ TSPOptimalMethod_calculate(input_data, config).error.type =
                 "NotImplementedError"
    /\ (RequestsTSP /\ IsCall("calculate")) =>
          /\ outcome.raised
          /\ outcome.error.type = "ValueError"
          /\ outcome.invoked = <<>>
          /\ Registered("tsp_optimal") =>
                 outcome.error.message = "Changeover method not implemented"
    /\ (RequestsTSP /\ IsCall("calculate_with_fallback")) =>
          /\ \A i \in DOMAIN outcome.invoked : outcome.invoked[i] # "tsp_optimal"
          /\ outcome.raised =
                 registry_calculate(_methods, last_call.fallback_method_id,
                                    input_data, config).raised
          /\ ~outcome.raised =>
                 /\ outcome.result.method_used = last_call.fallback_method_id
                 /\ outcome.result.method_used # "tsp_optimal"

\* C11's case: TSPOptimal is registered, it was the preferred method of
\* calculate_with_fallback, and the caller received another strategy's result.
C11_Witness ==
    /\ RequestsTSP
    /\ IsCall("calculate_with_fallback")
    /\ Registered("tsp_optimal")
    /\ ~outcome.raised
    /\ outcome.result.method_used = "simple_average"


\* The year run has ended and its changeover block names a calculationMethod
\* that the registry does not hold or that is not implemented.
InvalidChangeoverMethod ==
    /\ pc = "done"
    /\ HasChangeover(changeover_data)
    /\ ~Usable(changeover_method(changeover_data))

\* C12 (as stated): in a year run whose changeover block names an unknown or
\* unimplemented calculationMethod, every line with at least 2 assigned models
\* has a changeover section.
C12_InvalidMethodRecovered ==
    InvalidChangeoverMethod =>
        \A i \in DOMAIN result.lines :
            Len(result.lines[i].assignments) >= 2
                => result.lines[i].changeover # None


\* The lines of the selected area at 85% utilization or more, and their types.
FlaggedLines ==
    { id \in DOMAIN lines :
        /\ lines[id].area = result.systemConstraint.area
        /\ FLe(FromInt(85), utilizationPercent(lines[id])) }

FlaggedTypes == { lines[id].lineType : id \in FlaggedLines }

\* C13: for every selected constraint, the constrained lines are the lines of
\* the selected area at 85% utilization or more, and the classification is
\* 'dedicated_line_bottleneck' iff a line is flagged and all flagged lines are
\* dedicated, 'shared_capacity_constraint' iff all flagged lines are shared or
\* none is flagged, and 'mixed_constraint' iff a dedicated and a shared line
\* are both flagged.
C13_ConstraintClassification ==
    (pc = "done" /\ result.systemConstraint # None) =>
        LET sc == result.systemConstraint
        IN  /\ { sc.constrainedLines[i].lineId : i \in DOMAIN sc.constrainedLines }
                   = FlaggedLines
            /\ sc.constraintType \in { "dedicated_line_bottleneck",
                                        "shared_capacity_constraint",
                                        "mixed_constraint" }
            /\ sc.constraintType = "dedicated_line_bottleneck"
                   <=> FlaggedTypes = {"dedicated"}
            /\ sc.constraintType = "shared_capacity_constraint"
                   <=> FlaggedTypes \subseteq {"shared"}
            /\ sc.constraintType = "mixed_constraint"
                   <=> {"dedicated", "shared"} \subseteq FlaggedTypes

\* C13's case: a dedicated and a shared line of the selected area are both
\* flagged and the constraint is classified as mixed.
C13_Witness ==
    /\ pc = "done"
    /\ result.systemConstraint # None
    /\ FlaggedTypes = {"dedicated", "shared"}
    /\ result.systemConstraint.constraintType = "mixed_constraint"


\* A call has returned the result of the strategy with the given id.
ResultOf(method_id) ==
    /\ last_call # None
    /\ ~outcome.raised
    /\ outcome.result.method_used = method_id

\* The entries of the matrix for the ordered pairs of different models of the
\* input, a pair missing from the matrix counting as 0.
OffDiagonalEntries ==
    { matrix_get(input_data.changeover_matrix,
                 <<input_data.models[p[1]].model_id, input_data.models[p[2]].model_id>>) :
        p \in { q \in (DOMAIN input_data.models) \X (DOMAIN input_data.models) :
                  input_data.models[q[1]].model_id # input_data.models[q[2]].model_id } }

\* The maximum off-diagonal entry, in minutes.
MaxOffDiagonal ==
    CHOOSE v \in OffDiagonalEntries : \A w \in OffDiagonalEntries : FLe(w, v)

\* C14 (as stated): for an input with at least 2 models the WorstCase
\* result's expected_changeover_time is 60 times the maximum off-diagonal
\* entry, its time_used_changeover is that value times
\* num_changeovers_per_day, and its expected_changeover_time equals its
\* worst_case_changeover_time.
C14_WorstCaseExact ==
    (ResultOf("worst_case") /\ Len(input_data.models) >= 2) =>
        /\ outcome.result.expected_changeover_time = FMul(MaxOffDiagonal, Sixty)
        /\ outcome.result.time_used_changeover =
              FMul(outcome.result.expected_changeover_time,
                   FromInt(input_data.num_changeovers_per_day))
        /\ outcome.result.expected_changeover_time =
              outcome.result.worst_case_changeover_time

\* C14 (amended): for an input with at least 2 models the WorstCase result's
\* expected_changeover_time is 60 times the maximum off-diagonal entry rounded
\* to 2 decimals, its time_used_changeover is 60 times that maximum times
\* num_changeovers_per_day, rounded to 2 decimals after the multiplication,
\* and its expected_changeover_time equals its worst_case_changeover_time.
C14_WorstCaseRounded ==
    (ResultOf("worst_case") /\ Len(input_data.models) >= 2) =>
        /\ outcome.result.expected_changeover_time =
              Round2(FMul(MaxOffDiagonal, Sixty))
        /\ outcome.result.time_used_changeover =
              Round2(FMul(FMul(MaxOffDiagonal, Sixty),
                          FromInt(input_data.num_changeovers_per_day)))
        /\ outcome.result.expected_changeover_time =
              outcome.result.worst_case_changeover_time

\* C14's case: WorstCase returned a result for three models whose greatest
\* changeover is a fraction of a minute that the 2-decimal rounding changes.
C14_Witness ==
    /\ ResultOf("worst_case")
    /\ Len(input_data.models) = 3
    /\ FLt(Zero, MaxOffDiagonal)
    /\ outcome.result.expected_changeover_time # FMul(MaxOffDiagonal, Sixty)
    /\ outcome.result.expected_changeover_time = Round2(FMul(MaxOffDiagonal, Sixty))


\* The call leaves minModelsForProbability at its default of 2.
DefaultThreshold == min_models_for_probability(config) = [int |-> 2]

TotalAllocated ==
    FSum([i \in DOMAIN input_data.models |->
            input_data.models[i].allocated_units_daily])

\* p_i = allocated_i / sum of allocated, of the input's model with this id.
Share(model_id) ==
    FDiv(input_data.models[CHOOSE i \in DOMAIN input_data.models :
                              input_data.models[i].model_id = model_id]
             .allocated_units_daily,
         TotalAllocated)

\* HHI = sum of p_i squared.
SharesHHI ==
    FSum([i \in DOMAIN input_data.models |->
            FMul(Share(input_data.models[i].model_id),
                 Share(input_data.models[i].model_id))])

\* W = sum over i # j of p_i * p_j * matrix[i, j], in minutes.
WeightedW ==
    LET keys == transition_keys(input_data.models)
    IN  FSum([k \in DOMAIN keys |->
                FMul(FMul(Share(keys[k][1]), Share(keys[k][2])),
                     matrix_get(input_data.changeover_matrix, keys[k]))])

\* The result has zero changeover time and a warning.
ZeroWithWarning ==
    /\ outcome.result.expected_changeover_time = Zero
    /\ outcome.result.time_used_changeover = Zero
    /\ outcome.result.warnings # <<>>

\* The result has the warning of the dominated mix.
DominanceWarning ==
    \E i \in DOMAIN outcome.result.warnings :
        outcome.result.warnings[i]
            = "HHI >= 0.99: production dominated by single model"

\* The input has at least 2 models and a positive total of allocated units.
HasMix == Len(input_data.models) >= 2 /\ FLt(Zero, TotalAllocated)

\* C15 (as stated): ProbabilityWeighted with the default threshold: for at
\* least 2 models and positive total allocated units the expected time per
\* changeover is 0 with a warning when 1 - HHI <= 0.01 and otherwise
\* 60 * W / (1 - HHI) seconds; for fewer than 2 models or zero total allocated
\* units the result has zero changeover time and a warning.
C15_ProbabilityWeightedExact ==
    (ResultOf("probability_weighted") /\ DefaultThreshold) =>
        /\ ~HasMix => ZeroWithWarning
        /\ (HasMix /\ FLe(FSub(One, SharesHHI), RoundRat(1, 100, 0))) =>
              (ZeroWithWarning /\ DominanceWarning)
        /\ (HasMix /\ ~FLe(FSub(One, SharesHHI), RoundRat(1, 100, 0))) =>
              outcome.result.expected_changeover_time
                  = FMul(FDiv(WeightedW, FSub(One, SharesHHI)), Sixty)

\* C15 (amended): as above, the expected time per changeover of the general
\* case being 60 * W / (1 - HHI) seconds rounded to 2 decimals.
C15_ProbabilityWeightedRounded ==
    (ResultOf("probability_weighted") /\ DefaultThreshold) =>
        /\ ~HasMix => ZeroWithWarning
        /\ (HasMix /\ FLe(FSub(One, SharesHHI), RoundRat(1, 100, 0))) =>
              (ZeroWithWarning /\ DominanceWarning)
        /\ (HasMix /\ ~FLe(FSub(One, SharesHHI), RoundRat(1, 100, 0))) =>
              outcome.result.expected_changeover_time
                  = Round2(FMul(FDiv(WeightedW, FSub(One, SharesHHI)), Sixty))

\* C15's case: ProbabilityWeighted returned, for a mix of three models that no
\* model dominates, a positive expected time that the rounding to 2 decimals
\* changes.
C15_Witness ==
    /\ ResultOf("probability_weighted")
    /\ DefaultThreshold
    /\ Len(input_data.models) = 3
    /\ ~FLe(FSub(One, SharesHHI), RoundRat(1, 100, 0))
    /\ FLt(Zero, outcome.result.expected_changeover_time)
    /\ outcome.result.expected_changeover_time
           # FMul(FDiv(WeightedW, FSub(One, SharesHHI)), Sixty)

\* A mix dominated by one model: positive W, result 0 with the warning.
DominatedMixReached ==
    /\ ResultOf("probability_weighted")
    /\ HasMix
    /\ FLe(FSub(One, SharesHHI), RoundRat(1, 100, 0))
    /\ FLt(Zero, WeightedW)
    /\ ZeroWithWarning


\* n * (n - 1) for the n models of the input.
OffDiagonalCount == Len(input_data.models) * (Len(input_data.models) - 1)

\* The arithmetic mean of the off-diagonal entries of the input's models, a
\* pair missing from the matrix counting as 0, in minutes.
MeanOffDiagonal ==
    FDiv(FSum(transition_minutes(input_data)), FromInt(OffDiagonalCount))

\* The transition records of the result all carry the probability p.
AllTransitionsHaveProbability(p) ==
    /\ outcome.result.top_costly_transitions # <<>>
    /\ \A k \in DOMAIN outcome.result.top_costly_transitions :
          outcome.result.top_costly_transitions[k].probability = p

\* C16 (as stated): for an input with n >= 2 models the SimpleAverage result's
\* expected_changeover_time is 60 times the mean of the n * (n - 1)
\* off-diagonal entries, and every transition record carries the probability
\* 1 / (n * (n - 1)).
C16_SimpleAverageExact ==
    (ResultOf("simple_average") /\ Len(input_data.models) >= 2) =>
        /\ outcome.result.expected_changeover_time = FMul(MeanOffDiagonal, Sixty)
        /\ AllTransitionsHaveProbability(RoundRat(1, OffDiagonalCount, 0))

\* C16 (amended): for an input with n >= 2 models the SimpleAverage result's
\* expected_changeover_time is 60 times the mean of the n * (n - 1)
\* off-diagonal entries, rounded to 2 decimals, and every transition record
\* carries the probability 1 / (n * (n - 1)) rounded to 6 decimals.
C16_SimpleAverageRounded ==
    (ResultOf("simple_average") /\ Len(input_data.models) >= 2) =>
        /\ outcome.result.expected_changeover_time
              = Round2(FMul(MeanOffDiagonal, Sixty))
        /\ AllTransitionsHaveProbability(Round6(RoundRat(1, OffDiagonalCount, 0)))

\* C16's case: SimpleAverage returned a result for three models, of whose six
\* pairs some are missing from the matrix, with a positive expected time that
\* the rounding to 2 decimals changes.
C16_Witness ==
    /\ ResultOf("simple_average")
    /\ Len(input_data.models) = 3
    /\ \E k \in DOMAIN transition_keys(input_data.models) :
          transition_keys(input_data.models)[k] \notin DOMAIN input_data.changeover_matrix
    /\ Len(outcome.result.top_costly_transitions) = 6
    /\ FLt(Zero, outcome.result.expected_changeover_time)
    /\ outcome.result.expected_changeover_time # FMul(MeanOffDiagonal, Sixty)


\* _calculate_hhi on the models of the call, as _build_result applies it.
InputHHI == _calculate_hhi(input_data.models)

\* 1 / n for the n models of the input.
EqualShareHHI == RoundRat(1, Len(input_data.models), 0)

\* All the models of the input have the same allocated units.
EqualUnits ==
    \A i, j \in DOMAIN input_data.models :
        input_data.models[i].allocated_units_daily
            = input_data.models[j].allocated_units_daily

\* One model of the input holds all the allocated units.
SingleHolder ==
    \E i \in DOMAIN input_data.models :
        /\ FLt(Zero, input_data.models[i].allocated_units_daily)
        /\ \A j \in DOMAIN input_data.models \ {i} :
              input_data.models[j].allocated_units_daily = Zero

\* C17: for n >= 1 models with positive total allocated units
\* 1/n <= HHI <= 1, HHI = 1/n when all the models have equal units and HHI = 1
\* exactly when one model holds all the units; HHI = 0 when the total is 0.
C17_HHIBounds ==
    (last_call # None /\ ~outcome.raised /\ Len(input_data.models) >= 1) =>
        /\ FLt(Zero, TotalAllocated) =>
              /\ FLe(EqualShareHHI, InputHHI)
              /\ FLe(InputHHI, One)
              /\ EqualUnits => InputHHI = EqualShareHHI
              /\ InputHHI = One <=> SingleHolder
        /\ TotalAllocated = Zero => InputHHI = Zero


\* The assignments of every line are in non-decreasing priority order.
AssignmentsByPriority ==
    \A l \in DOMAIN lines :
        \A i, j \in DOMAIN lines[l].assignments :
            i < j => lines[l].assignments[i].priority <= lines[l].assignments[j].priority

\* C18: within an area every add_model call at a priority p is made before
\* every call at a priority q > p; the time a line has booked at a call is at
\* least what it had booked after any earlier call on it, so what a lower tier
\* has claimed is not available to a higher tier; and the assignments of every
\* line are in non-decreasing priority order.
C18_TiersAscending ==
    /\ \A i, j \in DOMAIN calls :
          (i < j /\ calls[i].area = calls[j].area) =>
              /\ calls[i].priority <= calls[j].priority
              /\ calls[i].lineId = calls[j].lineId =>
                    FLe(calls[i].line_after.timeUsedDaily,
                        calls[j].line_before.timeUsedDaily)
    /\ AssignmentsByPriority

\* C18's case: in one area a line has taken units at tier 1, a call at tier 2
\* on the same line followed, and a line holds assignments of both tiers.
C18_Witness ==
    /\ \E i, j \in DOMAIN calls :
          /\ i < j
          /\ calls[i].area = calls[j].area
          /\ calls[i].lineId = calls[j].lineId
          /\ calls[i].priority < calls[j].priority
          /\ FLt(Zero, calls[i].allocated)
    /\ \E l \in DOMAIN lines :
          \E i, j \in DOMAIN lines[l].assignments :
              lines[l].assignments[i].priority < lines[l].assignments[j].priority


\* The positions in the input compatibilities list of the records of a model
\* at a priority on the lines of an area.
InputPositions(area, priority, model_id) ==
    { k \in DOMAIN data.compatibilities :
        /\ data.compatibilities[k].modelId = model_id
        /\ data.compatibilities[k].priority = priority
        /\ \E n \in DOMAIN data.lines_data :
              /\ data.lines_data[n].id = data.compatibilities[k].lineId
              /\ data.lines_data[n].area = area }

\* The position of a line in the line catalog.
LinePosition(line_id) ==
    CHOOSE n \in DOMAIN data.lines_data : data.lines_data[n].id = line_id

\* The least element of a non-empty set of integers.
Least(S) == CHOOSE x \in S : \A y \in S : x <= y

\* Where the first record of a call's model, tier and area stands in the input.
FirstInInput(call) ==
    Least(InputPositions(call.area, call.priority, call.modelId))

\* Where the first record of a call's line, model and tier stands in the input.
RecordInInput(call) ==
    Least({ k \in InputPositions(call.area, call.priority, call.modelId) :
              data.compatibilities[k].lineId = call.lineId })

\* The rank of a record in the area's list, which goes through the lines in
\* catalog order and through each line's records in input order.
RankInArea(k) ==
    LinePosition(data.compatibilities[k].lineId) * (Len(data.compatibilities) + 1) + k

\* The rank in the area's list of the first record of a call's model and tier.
FirstInArea(call) ==
    Least({ RankInArea(k) :
              k \in InputPositions(call.area, call.priority, call.modelId) })

\* C19 (as stated): within a tier of an area the models are called in the
\* order in which their records first appear in the input compatibilities
\* list, and the lines of a model in the order of its records in that list.
C19_InputOrder ==
    \A i, j \in DOMAIN calls :
        (i < j /\ calls[i].area = calls[j].area
               /\ calls[i].priority = calls[j].priority) =>
            IF calls[i].modelId = calls[j].modelId
            THEN RecordInInput(calls[i]) <= RecordInInput(calls[j])
            ELSE FirstInInput(calls[i]) < FirstInInput(calls[j])

\* C19 (amended): within a tier of an area the models are called in the order
\* in which their records first appear in the area's record list, which takes
\* the lines in the order of the line catalog and the records of each line in
\* input order; the lines of a model are tried in the order of the line
\* catalog.
C19_AreaListOrder ==
    \A i, j \in DOMAIN calls :
        (i < j /\ calls[i].area = calls[j].area
               /\ calls[i].priority = calls[j].priority) =>
            IF calls[i].modelId = calls[j].modelId
            THEN LinePosition(calls[i].lineId) <= LinePosition(calls[j].lineId)
            ELSE FirstInArea(calls[i]) < FirstInArea(calls[j])

\* C19's case: two models of one tier were called for in one area, the one
\* whose record comes later in the input first, and both took units.
C19_Witness ==
    \E i, j \in DOMAIN calls :
        /\ i < j
        /\ calls[i].area = calls[j].area
        /\ calls[i].priority = calls[j].priority
        /\ calls[i].modelId # calls[j].modelId
        /\ FirstInInput(calls[j]) < FirstInInput(calls[i])
        /\ FLt(Zero, calls[i].allocated)
        /\ FLt(Zero, calls[j].allocated)


\* The call that a step of the tiered pass has made, if it has made one.
LastCall == calls'[Len(calls')]

\* A step of the tiered pass of an area: no entry of the pool grows or falls
\* below 0, and an add_model call takes from its model's entry an amount
\* between 0 and what the entry held.
PoolStep ==
    (pc = "tiers" /\ pc' = "tiers") =>
        /\ DOMAIN remaining_demand_in_area' = DOMAIN remaining_demand_in_area
        /\ \A m \in DOMAIN remaining_demand_in_area :
              /\ FLe(remaining_demand_in_area'[m], remaining_demand_in_area[m])
              /\ FLe(Zero, remaining_demand_in_area'[m])
        /\ calls' # calls =>
              /\ FLe(Zero, LastCall.allocated)
              /\ FLe(LastCall.allocated, remaining_demand_in_area[LastCall.modelId])
              /\ remaining_demand_in_area'[LastCall.modelId] =
                     FSub(remaining_demand_in_area[LastCall.modelId],
                          LastCall.allocated)
              /\ \A m \in DOMAIN remaining_demand_in_area \ {LastCall.modelId} :
                     remaining_demand_in_area'[m] = remaining_demand_in_area[m]

\* C20: over the tiered pass of an area the remaining-demand entry of every
\* model never increases and is never negative; each allocation subtracts an
\* amount between 0 and the current remaining value.
C20_PoolMonotone ==
    /\ [](\A m \in DOMAIN remaining_demand_in_area :
             FLe(Zero, remaining_demand_in_area[m]))
    /\ [][PoolStep]_vars

\* C20's case: a call has taken part of a model's remaining demand, and a
\* later call for the same model in the same area has taken some more and
\* left a positive remainder.
C20_Witness ==
    /\ pc = "tiers"
    /\ \E i, j \in DOMAIN calls :
          /\ i < j
          /\ calls[i].area = CurrentArea
          /\ calls[j].area = CurrentArea
          /\ calls[i].modelId = calls[j].modelId
          /\ FLt(Zero, calls[i].allocated)
          /\ FLt(Zero, calls[j].allocated)
          /\ FLt(calls[j].daily_demand, calls[i].daily_demand)
          /\ FLt(Zero, remaining_demand_in_area[calls[j].modelId])
          /\ FLt(remaining_demand_in_area[calls[j].modelId], calls[j].daily_demand)


\* The line of the input with the given id is a line of the area.
LineInArea(line_id, area) ==
    \E i \in DOMAIN data.lines_data :
        data.lines_data[i].id = line_id /\ data.lines_data[i].area = area

\* The model has a compatibility record on some line of the area.
HasRecordInArea(model_id, area) ==
    \E i \in DOMAIN data.compatibilities :
        /\ data.compatibilities[i].modelId = model_id
        /\ LineInArea(data.compatibilities[i].lineId, area)

\* The model has a volume entry for the year.
HasVolume(model_id) ==
    \E i \in DOMAIN data.volumes : data.volumes[i].modelId = model_id

\* The model belongs to the pool of the area.
Pooled(model_id, area) == HasVolume(model_id) /\ HasRecordInArea(model_id, area)

\* The areas of the input.
Areas == { data.lines_data[i].area : i \in DOMAIN data.lines_data }

\* The models with volume that have a record on a line of the area.
PooledModels(area) ==
    { m \in { data.volumes[i].modelId : i \in DOMAIN data.volumes } :
        HasRecordInArea(m, area) }

\* C21: a model with volume but no compatibility record on any line of an
\* area is outside that area's pool: it is never listed as unfulfilled for the
\* area, adds nothing to the area's unfulfilled total or summary demand, and so
\* cannot make the area the 'unfulfilled_demand' constraint; a record of a
\* model without volume causes no allocation.
C21_PoolMembership ==
    /\ pc = "tiers" =>
          \A m \in DOMAIN remaining_demand_in_area : Pooled(m, CurrentArea)
    /\ \A a \in DOMAIN unfulfilled_demand_tracker :
          \A i \in DOMAIN unfulfilled_demand_tracker[a].models :
              Pooled(unfulfilled_demand_tracker[a].models[i].modelId,
                     unfulfilled_demand_tracker[a].area)
    /\ \A c \in DOMAIN calls :
          /\ HasVolume(calls[c].modelId)
          /\ LineInArea(calls[c].lineId, calls[c].area)
          /\ \E i \in DOMAIN data.compatibilities :
                /\ data.compatibilities[i].modelId = calls[c].modelId
                /\ data.compatibilities[i].lineId = calls[c].lineId
    /\ result # None =>
          /\ \A u \in DOMAIN result.unfulfilledDemand :
                Pooled(result.unfulfilledDemand[u].modelId,
                       result.unfulfilledDemand[u].area)
          /\ \A s \in DOMAIN result.areaSummary :
                result.areaSummary[s].totalDemandUnitsDaily \in
                    { Round2(total_demand_daily(o)) :
                        o \in Orders(PooledModels(result.areaSummary[s].area)) }
          /\ (result.systemConstraint # None
                /\ result.systemConstraint.reason = "unfulfilled_demand") =>
                \E u \in DOMAIN result.unfulfilledDemand :
                    /\ result.unfulfilledDemand[u].area
                           = result.systemConstraint.area
                    /\ Pooled(result.unfulfilledDemand[u].modelId,
                              result.systemConstraint.area)

\* C21's case: the run is done; a model with positive demand has no record
\* in an area where another model was allocated, and is reported unfulfilled in
\* a different area, which is the constraint.
C21_Witness ==
    /\ result # None
    /\ \E m \in DOMAIN volumes_by_model, area \in Areas :
          /\ FLt(Zero, volumes_by_model[m].dailyDemand)
          /\ ~HasRecordInArea(m, area)
          /\ \E c \in DOMAIN calls :
                calls[c].area = area /\ FLt(Zero, calls[c].allocated)
          /\ \E u \in DOMAIN result.unfulfilledDemand :
                /\ result.unfulfilledDemand[u].modelId = m
                /\ result.unfulfilledDemand[u].area # area
          /\ result.systemConstraint # None
          /\ result.systemConstraint.reason = "unfulfilled_demand"
          /\ result.systemConstraint.area # area


\* The part of the input that concerns one area: its lines, the records of
\* those lines, and the volumes of the year.
AreaView(area) ==
    [lines_data |-> SelectSeq(data.lines_data, LAMBDA l : l.area = area),
     compatibilities |-> SelectSeq(data.compatibilities,
                                   LAMBDA c : LineInArea(c.lineId, area)),
     volumes |-> data.volumes]

\* The area's records, as its view gives them.
ViewCompatibilities(view, area) ==
    area_compatibilities(view.lines_data,
                         get_compatibilities_by_line(view.compatibilities),
                         get_volumes_by_year(view.volumes), area)

\* The lines of the view before any allocation.
ViewLines(view) ==
    [id \in { view.lines_data[i].id : i \in DOMAIN view.lines_data } |->
        ProductionLine(CHOOSE ld \in SeqToSet(view.lines_data) : ld.id = id)]

\* The full daily demand of every model of the records.
ViewPool(view, ac) ==
    [m \in models_with_compats_in_area(ac) |->
        get_volumes_by_year(view.volumes)[m].dailyDemand]

\* The pass of an area over its records, from the lines and the pool given:
\* the lines and the pool when the last record has been visited.
RECURSIVE PassOver(_, _, _)
PassCall(schedule, ls, pool, r) ==
    IF r.raised THEN [lines |-> ls, pool |-> pool]
    ELSE PassOver(Tail(schedule),
                  [ls EXCEPT ![Head(schedule).lineId] = r.line],
                  [pool EXCEPT ![Head(schedule).modelId] =
                                   remaining_after(@, r.allocated)])

PassOver(schedule, ls, pool) ==
    IF schedule = <<>> THEN [lines |-> ls, pool |-> pool]
    ELSE IF FLe(pool[Head(schedule).modelId], Zero)
    THEN PassOver(Tail(schedule), ls, pool)
    ELSE PassCall(schedule, ls, pool,
                  add_model(ls[Head(schedule).lineId], Head(schedule).modelId,
                            pool[Head(schedule).modelId],
                            Head(schedule).cycleTime, Head(schedule).efficiency,
                            Head(schedule).priority))

\* What the pass of the area yields when it is computed from the area's view
\* alone, on fresh lines and a pool of full demands.
ViewOutcome(view, area) ==
    PassOver(Schedule(ViewCompatibilities(view, area)), ViewLines(view),
             ViewPool(view, ViewCompatibilities(view, area)))

\* The lines of the area and its unfulfilled models are those of the outcome.
AreaMatches(a, expected) ==
    /\ \A id \in DOMAIN expected.lines : lines[id] = expected.lines[id]
    /\ unfulfilled_demand_tracker[a].area = lines_by_area[a]
    /\ SeqToSet(unfulfilled_demand_tracker[a].models)
          = { [modelId |-> m, units |-> expected.pool[m]] :
                m \in { x \in DOMAIN expected.pool :
                          FLt(Tolerance, expected.pool[x]) } }

\* The line has no time booked and no assignment.
Unused(line) == line.timeUsedDaily = Zero /\ line.assignments = <<>>

\* Two year results are the same, whatever the order of their unfulfilled
\* entries.
SameYearResult(r1, r2) ==
    /\ r1.lines = r2.lines
    /\ SeqToSet(r1.unfulfilledDemand) = SeqToSet(r2.unfulfilledDemand)
    /\ Len(r1.unfulfilledDemand) = Len(r2.unfulfilledDemand)
    /\ r1.areaSummary = r2.areaSummary
    /\ r1.systemConstraint = r2.systemConstraint
    /\ r1.summary = r2.summary

\* C22: passes are isolated.  Every year starts with all lines unused; every
\* area's pool is seeded with the full daily demand of each of its models and
\* its lines are unused when its pass starts; once an area's pass is over, its
\* lines and its unfulfilled models are what the area's own lines, records and
\* the volumes determine, and stay so while later areas are processed and in
\* the result; a later year with the same volumes gives the same result.
C22_PassesIsolated ==
    /\ (pc = "area" /\ area_idx = 1) =>
          /\ \A id \in DOMAIN lines : Unused(lines[id])
          /\ unfulfilled_demand_tracker = <<>>
    /\ (pc = "tiers" /\ pos = 1) =>
          /\ DOMAIN remaining_demand_in_area = PooledModels(CurrentArea)
          /\ \A m \in DOMAIN remaining_demand_in_area :
                remaining_demand_in_area[m] = volumes_by_model[m].dailyDemand
    /\ pc \in {"area", "tiers"} =>
          \A id \in DOMAIN lines :
              (\E a \in DOMAIN lines_by_area :
                  /\ lines_by_area[a] = lines[id].area
                  /\ (a > area_idx \/ (a = area_idx /\ (pc = "area" \/ pos = 1))))
              => Unused(lines[id])
    /\ pc \in {"area", "tiers", "summary", "done"} =>
          \A a \in DOMAIN unfulfilled_demand_tracker :
              AreaMatches(a, ViewOutcome(AreaView(lines_by_area[a]),
                                         lines_by_area[a]))
    /\ result # None =>
          \A i \in DOMAIN result.lines :
              LET expected == ViewOutcome(AreaView(result.lines[i].area),
                                          result.lines[i].area)
              IN  /\ result.lines[i].assignments
                        = expected.lines[result.lines[i].lineId].assignments
                  /\ result.lines[i].timeUsedDaily
                        = Round2(expected.lines[result.lines[i].lineId].timeUsedDaily)
    /\ (result # None /\ year_results # <<>>) =>
          SameYearResult(year_results[1], result)

\* C22's case: the second year of a document with two areas is done; in the
\* first year both areas took units of the same model and both left part of it
\* unfulfilled, and the second year's result has allocations again.
C22_Witness ==
    /\ result # None
    /\ year_results # <<>>
    /\ Cardinality(Areas) = 2
    /\ \E i, j \in DOMAIN calls :
          /\ calls[i].area # calls[j].area
          /\ calls[i].modelId = calls[j].modelId
          /\ FLt(Zero, calls[i].allocated)
          /\ FLt(Zero, calls[j].allocated)
          /\ calls[j].daily_demand = volumes_by_model[calls[j].modelId].dailyDemand
          /\ calls[i].daily_demand = volumes_by_model[calls[i].modelId].dailyDemand
    /\ Len(unfulfilled_demand_tracker) = 2
    /\ \A a \in DOMAIN unfulfilled_demand_tracker :
          unfulfilled_demand_tracker[a].models # <<>>
    /\ \A i \in DOMAIN year_results[1].lines :
          year_results[1].lines[i].assignments # <<>>


\* The overrides of the block for the line and the pair, by position.
OverridesFor(line_id, from, to) ==
    { i \in DOMAIN changeover_data.lineOverrides :
        /\ changeover_data.lineOverrides[i].lineId = line_id
        /\ changeover_data.lineOverrides[i].fromModelId = from
        /\ changeover_data.lineOverrides[i].toModelId = to }

\* The family of a model in the catalog, 'Unknown' when it has none.
FamilyOf(m) ==
    IF m \in DOMAIN models_data THEN models_data[m].family ELSE "Unknown"

\* The family defaults of the block for the families of the pair, by position.
DefaultsFor(from, to) ==
    { i \in DOMAIN changeover_data.familyDefaults :
        /\ changeover_data.familyDefaults[i].fromFamily = FamilyOf(from)
        /\ changeover_data.familyDefaults[i].toFamily = FamilyOf(to) }

\* The greatest position of a non-empty set of positions.
Latest(S) == CHOOSE i \in S : \A j \in S : j <= i

\* The minutes the three-step lookup gives, the latest entry standing for its
\* key when the block repeats it.
ResolvedMinutes(line_id, from, to) ==
    IF OverridesFor(line_id, from, to) # {}
    THEN changeover_data.lineOverrides[Latest(OverridesFor(line_id, from, to))]
             .changeoverMinutes
    ELSE IF DefaultsFor(from, to) # {}
    THEN changeover_data.familyDefaults[Latest(DefaultsFor(from, to))]
             .changeoverMinutes
    ELSE IF "globalDefaultMinutes" \in DOMAIN changeover_data
    THEN changeover_data.globalDefaultMinutes
    ELSE 30

\* The lines for which the run builds a changeover matrix.
LinesWithMatrix ==
    { id \in DOMAIN lines :
        /\ pc = "done"
        /\ HasChangeover(changeover_data)
        /\ Len(lines[id].assignments) >= 2 }

\* The models assigned to the line.
AssignedModels(id) ==
    { lines[id].assignments[i].modelId : i \in DOMAIN lines[id].assignments }

\* C23: in the changeover matrix of a line's assigned models every diagonal
\* entry is 0 and every off-diagonal entry (from, to) is the line's own
\* override for (from, to) if there is one, else the family default of the two
\* models' families if there is one, else the global default; overrides of
\* other lines and of the reverse pair play no part.
C23_MatrixResolution ==
    \A id \in LinesWithMatrix :
        LET matrix == line_changeover_matrix(lines[id], models_data, changeover_data)
        IN  /\ DOMAIN matrix = AssignedModels(id) \X AssignedModels(id)
            /\ \A from, to \in AssignedModels(id) :
                  matrix[<<from, to>>] =
                      IF from = to THEN WholeMinutes(0)
                      ELSE WholeMinutes(ResolvedMinutes(id, from, to))

\* C23's case: a line with two assigned models has, for one ordered pair, an
\* override of its own and a family default with another value, and for the
\* reverse pair no override and a family default, whose value is not that of
\* the override.
C23_Witness ==
    \E id \in LinesWithMatrix :
        \E from, to \in AssignedModels(id) :
            /\ from # to
            /\ OverridesFor(id, from, to) # {}
            /\ DefaultsFor(from, to) # {}
            /\ ResolvedMinutes(id, from, to)
                  # changeover_data.familyDefaults[Latest(DefaultsFor(from, to))]
                        .changeoverMinutes
            /\ OverridesFor(id, to, from) = {}
            /\ DefaultsFor(to, from) # {}
            /\ ResolvedMinutes(id, to, from) # ResolvedMinutes(id, from, to)
            /\ result.lines[CHOOSE i \in DOMAIN result.lines :
                               result.lines[i].lineId = id].changeover # None


\* C24: in the transition list of a WorstCase result a transition has
\* probability 1 exactly when its changeover minutes equal the maximum
\* off-diagonal matrix entry, and probability 0 otherwise.
C24_ProbabilityMarksMaximum ==
    ResultOf("worst_case") =>
        \A k \in DOMAIN outcome.result.top_costly_transitions :
            LET t == outcome.result.top_costly_transitions[k]
            IN  /\ t.probability \in {Zero, One}
                /\ t.probability = One <=> t.changeover_minutes = MaxOffDiagonal


\* The run computes a changeover section for the line.
ChangeoverAttempted(line) ==
    /\ HasChangeover(changeover_data)
    /\ models_data # <<>>
    /\ Len(line.assignments) >= 2

\* The strategy call made for the line.
ChangeoverCall(line) ==
    registry_calculate(_methods, changeover_method(changeover_data),
                       line_changeover_input(line, models_data, changeover_data),
                       None)

\* The changeover computation of the line raises.
ChangeoverFails(line) == ChangeoverAttempted(line) /\ ChangeoverCall(line).raised

\* The entry of the result for the line is the line's allocation, rounded.
AllocationReported(r, line) ==
    /\ r.timeUsedDaily = Round2(line.timeUsedDaily)
    /\ r.utilizationPercent = Round2(utilizationPercent(line))
    /\ r.assignments = line.assignments
    /\ r.timeAvailableDaily = line.timeAvailableDaily

ReturnedUnits(m) ==
    LET made == SelectSeq(calls, LAMBDA c : c.area = CurrentArea /\ c.modelId = m)
    IN  [i \in DOMAIN made |-> made[i].allocated]

\* The least exponent of the floats of a sequence.
RECURSIVE MinExponent(_)
MinExponent(xs) ==
    IF Len(xs) = 1 THEN xs[1][2]
    ELSE LET rest == MinExponent(Tail(xs))
         IN  IF xs[1][2] < rest THEN xs[1][2] ELSE rest

\* The exact sum of the floats of a sequence, in units of 2^E.
RECURSIVE ExactSum(_, _)
ExactSum(xs, E) ==
    IF xs = <<>> THEN 0
    ELSE xs[1][1] * Pow2(xs[1][2] - E) + ExactSum(Tail(xs), E)

\* x = the sum of the floats of xs, exactly.
ExactlySumOf(x, xs) ==
    ExactSum(<<x>>, MinExponent(<<x>> \o xs)) = ExactSum(xs, MinExponent(<<x>> \o xs))

\* The reported allocated units of the model on the lines of the area.
ReportedAllocated(area, m) ==
    Concat([i \in DOMAIN result.lines |->
        IF result.lines[i].area # area THEN <<>>
        ELSE LET a == SelectSeq(result.lines[i].assignments,
                                LAMBDA x : x.modelId = m)
             IN  [k \in DOMAIN a |-> a[k].allocatedUnitsDaily]])

\* C26: conservation of demand: at every point of an area's pass, for every
\* model of the pool, the remaining demand plus the units returned so far by
\* the allocation calls for the model in the area is the model's full daily
\* demand; and in the result the reported unfulfilled units of an (area,
\* model) plus its reported allocated units are the full daily demand.
C26_DemandConserved ==
    /\ pc = "tiers" =>
          \A m \in DOMAIN remaining_demand_in_area :
              ExactlySumOf(volumes_by_model[m].dailyDemand,
                           <<remaining_demand_in_area[m]>> \o ReturnedUnits(m))
    /\ result # None =>
          \A u \in DOMAIN result.unfulfilledDemand :
              ExactlySumOf(result.unfulfilledDemand[u].demandUnitsDaily,
                  <<result.unfulfilledDemand[u].unfulfilledUnitsDaily>>
                      \o ReportedAllocated(result.unfulfilledDemand[u].area,
                                           result.unfulfilledDemand[u].modelId))


\* Every record of the input has a positive cycle time and efficiency.
PositiveRecords ==
    \A i \in DOMAIN data.compatibilities :
        data.compatibilities[i].cycleTime > 0 /\ data.compatibilities[i].efficiency > 0

\* The line has no time left: its time is used up exactly (a line whose
\* available time is negative has none to begin with).
NoTimeLeft(line) ==
    \/ FLt(line.timeAvailableDaily, Zero)
    \/ line.timeUsedDaily = line.timeAvailableDaily

\* The tiers of the current area have all been visited.
TiersOver == pc = "tiers" /\ pos > Len(area_schedule)

\* C27: greedy saturation: with positive cycle times and efficiencies, a
\* model that still has remaining demand above 0 when the tiers of an area are
\* over has no compatible line of the area with time left; and within a tier
\* a model is offered to its next line only when the previous line has been
\* filled.
C27_GreedySaturation ==
    PositiveRecords =>
        /\ TiersOver =>
              \A m \in DOMAIN remaining_demand_in_area :
                  FLt(Zero, remaining_demand_in_area[m]) =>
                      \A i \in DOMAIN data.compatibilities :
                          (/\ data.compatibilities[i].modelId = m
                           /\ LineInArea(data.compatibilities[i].lineId, CurrentArea))
                          => NoTimeLeft(lines[data.compatibilities[i].lineId])
        /\ \A i, j \in DOMAIN calls :
              (/\ i < j
               /\ calls[i].area = calls[j].area
               /\ calls[i].modelId = calls[j].modelId
               /\ calls[i].priority = calls[j].priority
               /\ calls[i].lineId # calls[j].lineId)
              => NoTimeLeft(calls[i].line_after)


\* C28: a line never holds two assignments for the same model: of the
\* allocation calls made for one (line, model) pair in a year at most one
\* yields more than 0 units, so the number of a line's assignments is the
\* number of distinct models assigned to it.
C28_OneAssignmentPerModel ==
    /\ \A id \in DOMAIN lines :
          /\ \A i, j \in DOMAIN lines[id].assignments :
                i # j => lines[id].assignments[i].modelId
                           # lines[id].assignments[j].modelId
          /\ Len(lines[id].assignments)
                = Cardinality({ lines[id].assignments[i].modelId :
                                  i \in DOMAIN lines[id].assignments })
    /\ \A i, j \in DOMAIN calls :
          (/\ i # j
           /\ calls[i].lineId = calls[j].lineId
           /\ calls[i].modelId = calls[j].modelId
           /\ FLt(Zero, calls[i].allocated))
          => ~FLt(Zero, calls[j].allocated)


\* The lines of the result that belong to the area.
ResultLinesOf(area) ==
    { i \in DOMAIN result.lines : result.lines[i].area = area }

\* C29: in every year result no line has a utilization above 100, so
\* overloadedLines is 0, balancedLines + underutilizedLines = totalLines and
\* every area's average utilization is at most 100; and a
\* 'highest_utilization' constraint names an area whose lines are all exactly
\* fully used, while no area has unfulfilled demand.
C29_NeverOverloaded ==
    result # None =>
        /\ \A id \in DOMAIN lines : FLe(utilizationPercent(lines[id]), Hundred)
        /\ \A i \in DOMAIN result.lines :
              FLe(result.lines[i].utilizationPercent, Hundred)
        /\ result.summary.overloadedLines = 0
        /\ result.summary.balancedLines + result.summary.underutilizedLines
              = result.summary.totalLines
        /\ \A a \in DOMAIN result.areaSummary :
              FLe(result.areaSummary[a].averageUtilization, Hundred)
        /\ (result.systemConstraint # None
              /\ result.systemConstraint.reason = "highest_utilization") =>
              /\ result.unfulfilledDemand = <<>>
              /\ \A i \in ResultLinesOf(result.systemConstraint.area) :
                    /\ FLt(Zero, lines[result.lines[i].lineId].timeAvailableDaily)
                    /\ lines[result.lines[i].lineId].timeUsedDaily
                          = lines[result.lines[i].lineId].timeAvailableDaily


\* A result has been built for a positive available time and a changeover
\* time that is not negative.
BuiltResult ==
    /\ last_call # None
    /\ ~outcome.raised
    /\ FLt(Zero, outcome.result.time_available)
    /\ FLe(Zero, outcome.result.time_used_changeover)

\* The utilization with changeover is at least 100 and at least the
\* utilization of production alone, and the impact is 0.
NoImpact ==
    /\ FLe(Hundred, outcome.result.utilization_with_changeover)
    /\ FLe(outcome.result.utilization_production_only,
           outcome.result.utilization_with_changeover)
    /\ outcome.result.changeover_impact_percent = Zero

\* C30 (as stated): in every result of the shared builder with a
\* non-negative changeover time and a positive available time total_time_used
\* is at least time_available, utilization_with_changeover is at least 100 and
\* at least utilization_production_only, and changeover_impact_percent is 0.
C30_TotalCoversAvailable ==
    BuiltResult =>
        /\ FLe(outcome.result.time_available, outcome.result.total_time_used)
        /\ NoImpact

\* C30 (amended): as above, total_time_used being rounded to 2 decimals while
\* time_available is not: total_time_used is at least time_available less
\* 0.01, and at least the production and the changeover time of the result.
C30_TotalCoversAvailableRounded ==
    BuiltResult =>
        /\ FLe(FSub(outcome.result.time_available, RoundRat(1, 100, 0)),
               outcome.result.total_time_used)
        /\ FLe(outcome.result.time_used_production, outcome.result.total_time_used)
        /\ FLe(outcome.result.time_used_changeover, outcome.result.total_time_used)
        /\ NoImpact

\* C30's case: a result built for an available time with more than two
\* decimals reports a total below the available time, a utilization with
\* changeover of 100 and no impact.
C30_Witness ==
    /\ BuiltResult
    /\ FLt(outcome.result.total_time_used, outcome.result.time_available)
    /\ outcome.result.utilization_with_changeover = Hundred
    /\ outcome.result.changeover_impact_percent = Zero
====
